---- MODULE Spec2Model ----
(***************************************************************************)
(* The AI-client resilience layer of src/src/utils.py: the per-endpoint    *)
(* circuit breaker, rate limiter and client cache (module-level dicts),    *)
(* and the primary/fallback orchestration of                               *)
(* create_embeddings_with_fallback and make_chat_completion_with_fallback. *)
(*                                                                         *)
(* One caller issues logical calls one after the other; the module-level   *)
(* state lives across the calls.  The clock counts minutes, the unit of    *)
(* the circuit breaker's cooldown (timedelta(minutes=5)); it advances by   *)
(* the Tick action, which may fire between any two steps of a call, so a   *)
(* rate-limit sleep, a backend request and a backoff sleep each take an    *)
(* arbitrary amount of time.                                               *)
(***************************************************************************)
EXTENDS Integers, Sequences, FiniteSets, TLC

\* ------------------------------------------------------------------------
\* Bounds of the model
\* ------------------------------------------------------------------------

\* the clock advances at most MaxTicks times
MaxTicks == 1
\* the clock of the client cache advances at most MaxCacheTicks times
MaxCacheTicks == 2
\* no step takes a consecutive-error counter beyond MaxErrors
MaxErrors == 5
\* the number of concurrent callers
NThreads == 2
\* the number of concurrent callers that share the semaphore
NCallers == 6
\* the number of callers that may find the semaphore not yet created
MaxSemaphores == 2
\* the number of get_cached_client calls the concurrent callers make in all
MaxCalls == 3
\* the longest vector given to handle_dimension_mismatch
MaxDims == 4
\* the longest list of vectors given to handle_dimension_mismatch
MaxVectors == 2
\* the longest text given to smart_chunk_markdown, in characters
MaxLen == 6
\* the largest chunk_size given to smart_chunk_markdown
MaxChunkSize == 5
\* the batch_size given to add_documents_to_supabase
BatchSize == 2
\* the number of ingestion calls
MaxIngests == 2
\* the number of requests that the store fails in all
MaxFaults == 4
\* the largest MAX_WORKERS_CONTEXT
MaxWorkers == 2

\* ------------------------------------------------------------------------
\* Program constants
\* ------------------------------------------------------------------------

MAX_CONCURRENT_REQUESTS == 5
CIRCUIT_BREAKER_THRESHOLD == 3
\* 0.5 seconds, in tenths of a second
RATE_LIMIT_DELAY == 5
\* seconds
CLIENT_CACHE_TTL == 3600
\* timedelta(minutes=5)
CIRCUIT_BREAKER_COOLDOWN == 5
\* the cache's time-to-live on the clock of the model, which counts minutes
ClientCacheTtlMinutes == CLIENT_CACHE_TTL \div 60
\* by how much the clock advances in one step: a minute, all but the last
\* minute of a cooldown, or a whole cooldown
Durations == {1, CIRCUIT_BREAKER_COOLDOWN - 1, CIRCUIT_BREAKER_COOLDOWN}
max_retries == 3
SUPABASE_MAX_RETRIES == 3

\* "no exception": the None of primary_error (an exception is never empty)
NoError == <<>>

\* ------------------------------------------------------------------------
\* Errors.  str(error) is a sequence of text fragments; a substring test of
\* the source is a membership test on the fragments of the lowered text.
\* ------------------------------------------------------------------------

Err503 == <<"503", "Service Unavailable">>
ErrAuth == <<"Invalid API key">>
ErrConn == <<"Connection error">>
ErrBaseUrl == <<"Invalid base URL">>

\* what a backend request can raise
BackendErrors == {Err503, ErrAuth}
\* what the openai.OpenAI constructor can raise
ConstructorErrors == {ErrConn, ErrBaseUrl}

\* str.lower() on one fragment
Lower(t) ==
    CASE t = "Service Unavailable" -> "service unavailable"
      [] t = "Connection error" -> "connection error"
      [] t = "Invalid API key" -> "invalid api key"
      [] t = "Invalid base URL" -> "invalid base url"
      [] t = "Circuit breaker open" -> "circuit breaker open"
      [] t = "Rate Limit" -> "rate limit"
      [] t = "Timeout" -> "timeout"
      [] OTHER -> t

retryable_codes == {"503", "429", "500", "502", "504"}
retryable_messages ==
    {"service unavailable", "rate limit", "timeout", "connection error",
     "no available server", "server error"}

is_retryable_error(error) ==
    LET error_str == [i \in 1..Len(error) |-> Lower(error[i])]
    IN  \/ \E i \in 1..Len(error_str) : error_str[i] \in retryable_codes
        \/ \E i \in 1..Len(error_str) : error_str[i] \in retryable_messages

\* ------------------------------------------------------------------------
\* Endpoint keys and configuration (environment variables)
\* ------------------------------------------------------------------------

Kinds == {"embedding", "chat"}
Roles == {"primary", "fallback"}
Keys == Kinds \X Roles

\* The environment of the process: which of the two orchestrators the
\* caller uses, USE_*_MODEL_FALLBACK, whether the fallback model and its
\* API key are set, whether the primary API key (and, for chat, the model)
\* is set, and EMBEDDING_DIMENSIONS.
Envs ==
    [kind : Kinds,
     use_fallback : BOOLEAN,
     fallback_configured : BOOLEAN,
     primary_configured : BOOLEAN,
     target_dims : {3}]

\* vectors a backend may answer for the three input texts
BackendVectors ==
    { << <<1, 0>>, <<0, 1>>, <<1, 1>> >>,
      << <<1, 2, 3>>, <<4, 5, 6>>, <<7, 8, 9>> >>,
      << <<1, 2, 3, 4>>, <<5, 6, 7, 8>>, <<9, 8, 7, 6>> >> }

VARIABLES
    env,                    \* os.environ, fixed for the process
    now,                    \* the wall clock, in minutes
    ticks,                  \* how often the clock has advanced
    consecutive_errors,     \* _consecutive_errors (dict)
    circuit_breaker_until,  \* _circuit_breaker_until (dict)
    last_request_time,      \* _last_request_time (dict)
    client_cache,           \* _client_cache (dict)
    request_semaphore,      \* _request_semaphore: <<>> is None, <<n>> has n free permits
    pc,                     \* where the caller is in the logical call
    attempt,                \* loop variable of the retry loop
    primary_error,          \* local primary_error
    fallback_error,         \* local fallback_error of the except clause
    requests,               \* the backend requests of this call, in order, with their answers
    outcome,                \* how the call ended: returned value or raised error
    entry_errors,           \* per key, the counter as the circuit check of this call left it
    failure_streak,         \* history: retryable record_error calls in a row, per key;
                            \* no entry once a check has found the cooldown over
    opened_at,              \* history: when the threshold-th failure in a row was recorded
    tpc,                    \* concurrent callers: where each thread is
    tlocal,                 \* concurrent callers: the local variables of each thread
    history,                \* concurrent callers: what the threads have done, in order
    client_cache_lock,      \* _client_cache_lock: <<>> is free, <<t>> is held by thread t
    semaphores,             \* the threading.Semaphore objects made so far: free permits of each
    crawled_pages,          \* the rows of the table crawled_pages, in the order of insertion
    sources,                \* the rows of the table sources, in the order of insertion
    ipc,                    \* where add_documents_to_supabase is
    ilocal,                 \* the arguments and local variables of add_documents_to_supabase
    oplog,                  \* history: the requests made of the store, with their results
    ingested,               \* history: the arguments of the ingestion calls so far
    args,                   \* the arguments of a function called on its own
    result,                 \* what that function returned: <<>> before the call, <<value>> after
    locals                  \* the local variables of that function while it runs step by step

vars ==
    <<env, now, ticks, consecutive_errors, circuit_breaker_until, last_request_time,
      client_cache, request_semaphore, pc, attempt, primary_error,
      fallback_error, requests, outcome, entry_errors, failure_streak,
      opened_at, tpc, tlocal, history, client_cache_lock, semaphores,
      crawled_pages, sources, ipc, ilocal, oplog, ingested, args, result, locals>>

\* the state of the concurrent callers, at rest while one caller runs alone
threadVars == <<tpc, tlocal, history, client_cache_lock, semaphores>>

\* the state of the ingestion pipeline and of the functions called on their
\* own, at rest while the resilience layer runs
pipelineVars ==
    <<crawled_pages, sources, ipc, ilocal, oplog, ingested, args, result, locals>>

Threads == 1..NThreads

primary_key == <<env.kind, "primary">>
fallback_key == <<env.kind, "fallback">>

\* dict.get(key, default), dict[key] = value, del dict[key]
Get(d, key, default) == IF key \in DOMAIN d THEN d[key] ELSE default
Put(d, key, value) == [k \in DOMAIN d \cup {key} |-> IF k = key THEN value ELSE d[k]]
Del(d, key) == [k \in DOMAIN d \ {key} |-> d[k]]
EmptyDict == [k \in {} |-> 0]

\* ------------------------------------------------------------------------
\* The exceptions the orchestration itself raises
\* ------------------------------------------------------------------------

ErrCircuitOpen == <<"Circuit breaker open">>
ErrKeyMissing == <<"API key must be set">>
ErrBothClients == <<"Both primary and fallback models failed">>
ErrBothOpen == <<"Both primary and fallback models have circuit breakers open">>
ErrNotConfigured == <<"Fallback model not configured">>
ErrUnexpected == <<"Unexpected error in fallback system">>

\* f"Both primary and fallback ... failed. Primary: {p}. Fallback: {f}"
CombinedError(p, f) ==
    <<"Both primary and fallback models failed. Primary:">> \o p
        \o <<". Fallback:">> \o f

\* ------------------------------------------------------------------------
\* Circuit breaker.  cb is the pair of dicts _consecutive_errors (errors)
\* and _circuit_breaker_until (until); the fields streak and opened are
\* history kept beside them and read by no operation.
\* ------------------------------------------------------------------------

\* is_circuit_breaker_open with the comparison of the clock and the
\* open-until time turned round
is_circuit_breaker_open_reversed(cb, endpoint_key, t) ==
    IF endpoint_key \in DOMAIN cb.until
    THEN IF t > cb.until[endpoint_key]
         THEN [open |-> TRUE, cb |-> cb]
         ELSE [open |-> FALSE,
               cb |-> [errors |-> Put(cb.errors, endpoint_key, 0),
                       until |-> Del(cb.until, endpoint_key),
                       streak |-> Del(cb.streak, endpoint_key),
                       opened |-> Del(cb.opened, endpoint_key)]]
    ELSE [open |-> FALSE, cb |-> cb]

\* is_circuit_breaker_open without "_consecutive_errors[endpoint_key] = 0"
is_circuit_breaker_open_stale(cb, endpoint_key, t) ==
    IF endpoint_key \in DOMAIN cb.until
    THEN IF t < cb.until[endpoint_key]
         THEN [open |-> TRUE, cb |-> cb]
         ELSE [open |-> FALSE,
               cb |-> [errors |-> cb.errors,
                       until |-> Del(cb.until, endpoint_key),
                       streak |-> Del(cb.streak, endpoint_key),
                       opened |-> Del(cb.opened, endpoint_key)]]
    ELSE [open |-> FALSE, cb |-> cb]

is_circuit_breaker_open(cb, endpoint_key, t) ==
    IF endpoint_key \in DOMAIN cb.until
    THEN IF t < cb.until[endpoint_key]
         THEN [open |-> TRUE, cb |-> cb]
         ELSE [open |-> FALSE,
               cb |-> [errors |-> Put(cb.errors, endpoint_key, 0),
                       until |-> Del(cb.until, endpoint_key),
                       streak |-> Del(cb.streak, endpoint_key),
                       opened |-> Del(cb.opened, endpoint_key)]]
    ELSE [open |-> FALSE, cb |-> cb]

\* record_error without "if is_retryable_error(error)": every error counts
record_error_any(cb, endpoint_key, error, t) ==
    LET n == Get(cb.errors, endpoint_key, 0) + 1
        s == Get(cb.streak, endpoint_key, 0) + 1
    IN  [errors |-> Put(cb.errors, endpoint_key, n),
         until |-> IF n >= CIRCUIT_BREAKER_THRESHOLD
                   THEN Put(cb.until, endpoint_key, t + CIRCUIT_BREAKER_COOLDOWN)
                   ELSE cb.until,
         streak |-> Put(cb.streak, endpoint_key, s),
         opened |-> IF s = CIRCUIT_BREAKER_THRESHOLD
                    THEN Put(cb.opened, endpoint_key, t)
                    ELSE cb.opened]

\* record_error with "> CIRCUIT_BREAKER_THRESHOLD" in place of ">="
record_error_late(cb, endpoint_key, error, t) ==
    IF is_retryable_error(error)
    THEN LET n == Get(cb.errors, endpoint_key, 0) + 1
             s == Get(cb.streak, endpoint_key, 0) + 1
         IN  [errors |-> Put(cb.errors, endpoint_key, n),
              until |-> IF n > CIRCUIT_BREAKER_THRESHOLD
                        THEN Put(cb.until, endpoint_key, t + CIRCUIT_BREAKER_COOLDOWN)
                        ELSE cb.until,
              streak |-> Put(cb.streak, endpoint_key, s),
              opened |-> IF s = CIRCUIT_BREAKER_THRESHOLD
                         THEN Put(cb.opened, endpoint_key, t)
                         ELSE cb.opened]
    ELSE cb

record_error(cb, endpoint_key, error, t) ==
    IF is_retryable_error(error)
    THEN LET n == Get(cb.errors, endpoint_key, 0) + 1
             s == Get(cb.streak, endpoint_key, 0) + 1
         IN  [errors |-> Put(cb.errors, endpoint_key, n),
              until |-> IF n >= CIRCUIT_BREAKER_THRESHOLD
                        THEN Put(cb.until, endpoint_key, t + CIRCUIT_BREAKER_COOLDOWN)
                        ELSE cb.until,
              streak |-> Put(cb.streak, endpoint_key, s),
              opened |-> IF s = CIRCUIT_BREAKER_THRESHOLD
                         THEN Put(cb.opened, endpoint_key, t)
                         ELSE cb.opened]
    ELSE cb

\* record_success that leaves the counter as it is
record_success_keeps(cb, endpoint_key) ==
    [errors |-> cb.errors,
     until |-> cb.until,
     streak |-> Put(cb.streak, endpoint_key, 0),
     opened |-> cb.opened]

\* record_success that closes the circuit as well
record_success_closes(cb, endpoint_key) ==
    [errors |-> Put(cb.errors, endpoint_key, 0),
     until |-> Del(cb.until, endpoint_key),
     streak |-> Put(cb.streak, endpoint_key, 0),
     opened |-> cb.opened]

record_success(cb, endpoint_key) ==
    [errors |-> Put(cb.errors, endpoint_key, 0),
     until |-> cb.until,
     streak |-> Put(cb.streak, endpoint_key, 0),
     opened |-> cb.opened]

\* ------------------------------------------------------------------------
\* Rate limiter.  The sleep of rate_limit_delay is shorter than one unit of
\* the clock; what it leaves behind is the time of this request.
\* ------------------------------------------------------------------------

rate_limit_delay(lrt, endpoint_key, t) == Put(lrt, endpoint_key, t)

\* ------------------------------------------------------------------------
\* Client cache.  made is what create_func does if it is called:
\* [ok |-> TRUE] or [ok |-> FALSE, error |-> e].
\* ------------------------------------------------------------------------

FactoryOk == [ok |-> TRUE, error |-> NoError]
FactoryFails(e) == [ok |-> FALSE, error |-> e]
FactoryResults == {FactoryOk} \cup {FactoryFails(e) : e \in ConstructorErrors}

get_cached_client(cache, client_key, t, made) ==
    LET valid == /\ client_key \in DOMAIN cache
                 /\ t - cache[client_key].created_at < ClientCacheTtlMinutes
        swept == IF client_key \in DOMAIN cache THEN Del(cache, client_key) ELSE cache
    IN  IF valid
        THEN [ok |-> TRUE, error |-> NoError,
              client |-> cache[client_key].client, cache |-> cache]
        ELSE IF made.ok
             THEN [ok |-> TRUE, error |-> NoError,
                   client |-> <<client_key, t>>,
                   cache |-> Put(swept, client_key,
                                 [client |-> <<client_key, t>>, created_at |-> t])]
             ELSE [ok |-> FALSE, error |-> made.error,
                   client |-> <<>>, cache |-> swept]

\* get_embedding_client_with_fallback / get_chat_client_with_fallback
get_client_with_fallback(cb, cache, t, madePrimary, madeFallback) ==
    IF ~env.primary_configured
    THEN [raised |-> TRUE, error |-> ErrKeyMissing, is_fallback |-> FALSE,
          cb |-> cb, cache |-> cache]
    ELSE LET p == get_cached_client(cache, primary_key, t, madePrimary)
         IN  IF p.ok
             THEN [raised |-> FALSE, error |-> NoError, is_fallback |-> FALSE,
                   cb |-> cb, cache |-> p.cache]
             ELSE LET cb1 == record_error(cb, primary_key, p.error, t)
                  IN  IF env.fallback_configured
                      THEN LET f == get_cached_client(p.cache, fallback_key, t, madeFallback)
                           IN  IF f.ok
                               THEN [raised |-> FALSE, error |-> NoError,
                                     is_fallback |-> TRUE,
                                     cb |-> cb1, cache |-> f.cache]
                               ELSE [raised |-> TRUE, error |-> ErrBothClients,
                                     is_fallback |-> FALSE,
                                     cb |-> record_error(cb1, fallback_key, f.error, t),
                                     cache |-> f.cache]
                      ELSE [raised |-> TRUE, error |-> ErrBothClients,
                            is_fallback |-> FALSE,
                            cb |-> cb1, cache |-> p.cache]

\* ------------------------------------------------------------------------
\* Dimension reconciliation
\* ------------------------------------------------------------------------

\* embedding[:n]
Take(v, n) == SubSeq(v, 1, IF n < Len(v) THEN n ELSE Len(v))
\* [0.0] * n
Zeros(n) == [i \in 1..n |-> 0]

\* handle_dimension_mismatch that truncates but never pads
handle_dimension_mismatch_nopad(embeddings, target_dims) ==
    IF embeddings = <<>> \/ embeddings[1] = <<>>
    THEN embeddings
    ELSE LET current_dims == Len(embeddings[1])
         IN  IF current_dims > target_dims
             THEN [i \in 1..Len(embeddings) |-> Take(embeddings[i], target_dims)]
             ELSE embeddings

handle_dimension_mismatch(embeddings, target_dims) ==
    IF embeddings = <<>> \/ embeddings[1] = <<>>
    THEN embeddings
    ELSE LET current_dims == Len(embeddings[1])
         IN  IF current_dims = target_dims
             THEN embeddings
             ELSE IF current_dims > target_dims
                  THEN [i \in 1..Len(embeddings) |-> Take(embeddings[i], target_dims)]
                  ELSE [i \in 1..Len(embeddings) |->
                            embeddings[i] \o Zeros(target_dims - current_dims)]

\* ------------------------------------------------------------------------
\* Backend answers and call outcomes
\* ------------------------------------------------------------------------

\* what client.embeddings.create / client.chat.completions.create can do
Answers ==
    (IF env.kind = "embedding"
     THEN {[ok |-> TRUE, error |-> NoError, vectors |-> v] : v \in BackendVectors}
     ELSE {[ok |-> TRUE, error |-> NoError, vectors |-> <<>>]})
    \cup {[ok |-> FALSE, error |-> e, vectors |-> <<>>] : e \in BackendErrors}

NoOutcome == [kind |-> "none", error |-> NoError, value |-> <<>>]
Returned(v) == [kind |-> "returned", error |-> NoError, value |-> v]
Raised(e) == [kind |-> "raised", error |-> e, value |-> <<>>]

\* the value a successful request gives the caller
ResultOf(answer) ==
    IF env.kind = "embedding"
    THEN handle_dimension_mismatch(answer.vectors, env.target_dims)
    ELSE answer.vectors

CB ==
    [errors |-> consecutive_errors, until |-> circuit_breaker_until,
     streak |-> failure_streak, opened |-> opened_at]

SetCB(c) ==
    /\ \A k \in DOMAIN c.errors : c.errors[k] <= MaxErrors
    /\ consecutive_errors' = c.errors
    /\ circuit_breaker_until' = c.until
    /\ failure_streak' = c.streak
    /\ opened_at' = c.opened

\* the retry test with "attempt < max_retries"
ShouldRetry_offbyone(error, n) == is_retryable_error(error) /\ n < max_retries

\* the retry test without "is_retryable_error(e)"
ShouldRetry_any(error, n) == n < max_retries - 1

\* "if is_retryable_error(e) and attempt < max_retries - 1": sleep and retry
ShouldRetry(error, n) == is_retryable_error(error) /\ n < max_retries - 1

\* the primary giving up as the fallback does: recorded, re-raised and
\* recorded again
PrimaryGivesUp_twice(cb, error, t) ==
    record_error(record_error(cb, primary_key, error, t), primary_key, error, t)

\* the else branch of the primary loop's except clause, reached when the
\* request is not retried: record_error(primary_key, e), once
PrimaryGivesUp(cb, error, t) == record_error(cb, primary_key, error, t)

\* the else branch of the fallback loop's except clause records the error
\* and re-raises it; the enclosing "except Exception as fallback_error"
\* catches it and records it again
FallbackGivesUp(cb, error, t) ==
    record_error(record_error(cb, fallback_key, error, t), fallback_key, error, t)

\* the fallback test without "and primary_error"
ShouldTryFallback_always == env.use_fallback

\* "if use_fallback and primary_error"
ShouldTryFallback == env.use_fallback /\ primary_error # NoError

\* semaphore.acquire() by entering, release() by leaving a with block
Acquired(sem) == <<sem[1] - 1>>
Released(sem) == <<sem[1] + 1>>

\* ------------------------------------------------------------------------
\* Initial state: a fresh process
\* ------------------------------------------------------------------------

\* no concurrent caller has started
NoThreads ==
    /\ tpc = [t \in Threads |-> "idle"]
    /\ tlocal = [t \in Threads |-> <<>>]
    /\ history = <<>>
    /\ client_cache_lock = <<>>
    /\ semaphores = <<>>

\* nothing stored, no ingestion begun, no function called
NoPipeline ==
    /\ crawled_pages = <<>>
    /\ sources = <<>>
    /\ ipc = "idle"
    /\ ilocal = <<>>
    /\ oplog = <<>>
    /\ ingested = <<>>
    /\ args = <<>>
    /\ result = <<>>
    /\ locals = <<>>

Init ==
    /\ env \in Envs
    /\ now = 0
    /\ ticks = 0
    /\ consecutive_errors = EmptyDict
    /\ circuit_breaker_until = EmptyDict
    /\ last_request_time = EmptyDict
    /\ client_cache = EmptyDict
    /\ request_semaphore = <<>>
    /\ pc = "idle"
    /\ attempt = 0
    /\ primary_error = NoError
    /\ fallback_error = NoError
    /\ requests = <<>>
    /\ outcome = NoOutcome
    /\ entry_errors = EmptyDict
    /\ failure_streak = EmptyDict
    /\ opened_at = EmptyDict
    /\ NoThreads
    /\ NoPipeline

\* ------------------------------------------------------------------------
\* One logical call
\* ------------------------------------------------------------------------

\* Entry of create_embeddings_with_fallback / make_chat_completion_with_fallback
\* up to the circuit check of the primary.
StartCall(texts_empty) ==
    /\ pc \in {"idle", "done"}
    /\ UNCHANGED <<threadVars, pipelineVars>>
    /\ attempt' = 0
    /\ fallback_error' = NoError
    /\ requests' = <<>>
    /\ UNCHANGED <<env, now, ticks, last_request_time, client_cache>>
    /\ IF env.kind = "embedding" /\ texts_empty
       THEN /\ outcome' = Returned(<<>>)
            /\ pc' = "done"
            /\ primary_error' = NoError
            /\ entry_errors' = EmptyDict
            /\ UNCHANGED <<consecutive_errors, circuit_breaker_until,
                           failure_streak, opened_at, request_semaphore>>
       ELSE LET r == is_circuit_breaker_open(CB, primary_key, now)
            IN  /\ request_semaphore' =
                       IF request_semaphore = <<>>
                       THEN <<MAX_CONCURRENT_REQUESTS>>
                       ELSE request_semaphore
                /\ SetCB(r.cb)
                /\ outcome' = NoOutcome
                /\ entry_errors' =
                       Put(EmptyDict, primary_key, Get(r.cb.errors, primary_key, 0))
                /\ IF r.open
                   THEN /\ primary_error' = ErrCircuitOpen
                        /\ pc' = "after_primary"
                   ELSE /\ primary_error' = NoError
                        /\ pc' = "primary_setup"

\* with semaphore: rate_limit_delay(primary_key); get_*_client_with_fallback()
PrimarySetup(madePrimary, madeFallback) ==
    /\ pc = "primary_setup"
    /\ UNCHANGED <<threadVars, pipelineVars>>
    /\ request_semaphore[1] > 0
    /\ LET g == get_client_with_fallback(CB, client_cache, now, madePrimary, madeFallback)
       IN  /\ last_request_time' = rate_limit_delay(last_request_time, primary_key, now)
           /\ client_cache' = g.cache
           /\ IF g.raised
              THEN \* except Exception as e: record_error; primary_error = e
                   /\ SetCB(record_error(g.cb, primary_key, g.error, now))
                   /\ primary_error' = g.error
                   /\ pc' = "after_primary"
                   /\ UNCHANGED request_semaphore
              ELSE IF g.is_fallback
                   THEN \* the retry loop is skipped
                        /\ SetCB(g.cb)
                        /\ primary_error' = NoError
                        /\ pc' = "after_primary"
                        /\ UNCHANGED request_semaphore
                   ELSE /\ SetCB(g.cb)
                        /\ primary_error' = NoError
                        /\ pc' = "primary_call"
                        /\ request_semaphore' = Acquired(request_semaphore)
    /\ attempt' = 0
    /\ UNCHANGED <<env, now, ticks, fallback_error, requests, outcome, entry_errors>>

\* one iteration of the primary retry loop
PrimaryAttempt(answer) ==
    /\ pc = "primary_call"
    /\ UNCHANGED <<threadVars, pipelineVars>>
    /\ requests' = Append(requests, [role |-> "primary", answer |-> answer])
    /\ IF answer.ok
       THEN /\ SetCB(record_success(CB, primary_key))
            /\ outcome' = Returned(ResultOf(answer))
            /\ pc' = "done"
            /\ request_semaphore' = Released(request_semaphore)
            /\ UNCHANGED <<attempt, primary_error>>
       ELSE IF ShouldRetry(answer.error, attempt)
            THEN /\ attempt' = attempt + 1
                 /\ UNCHANGED <<consecutive_errors, circuit_breaker_until,
                                failure_streak, opened_at, outcome, pc,
                                request_semaphore, primary_error>>
            ELSE /\ SetCB(PrimaryGivesUp(CB, answer.error, now))
                 /\ primary_error' = answer.error
                 /\ pc' = "after_primary"
                 /\ request_semaphore' = Released(request_semaphore)
                 /\ UNCHANGED <<attempt, outcome>>
    /\ UNCHANGED <<env, now, ticks, last_request_time, client_cache,
                   fallback_error, entry_errors>>

\* "Try fallback if enabled and primary failed" up to the circuit check of
\* the fallback, and the three raise statements that end the function
AfterPrimary ==
    /\ pc = "after_primary"
    /\ UNCHANGED <<threadVars, pipelineVars>>
    /\ IF ShouldTryFallback
       THEN LET r == is_circuit_breaker_open(CB, fallback_key, now)
            IN  /\ SetCB(r.cb)
                /\ entry_errors' =
                       Put(entry_errors, fallback_key, Get(r.cb.errors, fallback_key, 0))
                /\ IF r.open
                   THEN /\ outcome' = Raised(ErrBothOpen)
                        /\ pc' = "done"
                   ELSE /\ pc' = "fallback_setup"
                        /\ UNCHANGED outcome
       ELSE /\ outcome' = Raised(IF primary_error # NoError
                                 THEN primary_error
                                 ELSE ErrUnexpected)
            /\ pc' = "done"
            /\ UNCHANGED <<consecutive_errors, circuit_breaker_until,
                           failure_streak, opened_at, entry_errors>>
    /\ UNCHANGED <<env, now, ticks, last_request_time, client_cache,
                   request_semaphore, attempt, primary_error, fallback_error,
                   requests>>

\* with semaphore: rate_limit_delay(fallback_key); get_cached_client(fallback_key, ...)
FallbackSetup(made) ==
    /\ pc = "fallback_setup"
    /\ UNCHANGED <<threadVars, pipelineVars>>
    /\ request_semaphore[1] > 0
    /\ LET create_fallback_client ==
               IF ~env.fallback_configured THEN FactoryFails(ErrNotConfigured) ELSE made
           g == get_cached_client(client_cache, fallback_key, now, create_fallback_client)
       IN  /\ last_request_time' = rate_limit_delay(last_request_time, fallback_key, now)
           /\ client_cache' = g.cache
           /\ IF g.ok
              THEN /\ pc' = "fallback_call"
                   /\ request_semaphore' = Acquired(request_semaphore)
                   /\ UNCHANGED <<consecutive_errors, circuit_breaker_until,
                                  failure_streak, opened_at, fallback_error, outcome>>
              ELSE \* except Exception as fallback_error
                   /\ SetCB(record_error(CB, fallback_key, g.error, now))
                   /\ fallback_error' = g.error
                   /\ outcome' = Raised(CombinedError(primary_error, g.error))
                   /\ pc' = "done"
                   /\ UNCHANGED request_semaphore
    /\ attempt' = 0
    /\ UNCHANGED <<env, now, ticks, primary_error, requests, entry_errors>>

\* one iteration of the fallback retry loop; a definitive failure is recorded,
\* re-raised, caught by the enclosing except clause and recorded again
FallbackAttempt(answer) ==
    /\ pc = "fallback_call"
    /\ UNCHANGED <<threadVars, pipelineVars>>
    /\ requests' = Append(requests, [role |-> "fallback", answer |-> answer])
    /\ IF answer.ok
       THEN /\ SetCB(record_success(CB, fallback_key))
            /\ outcome' = Returned(ResultOf(answer))
            /\ pc' = "done"
            /\ request_semaphore' = Released(request_semaphore)
            /\ UNCHANGED <<attempt, fallback_error>>
       ELSE IF ShouldRetry(answer.error, attempt)
            THEN /\ attempt' = attempt + 1
                 /\ UNCHANGED <<consecutive_errors, circuit_breaker_until,
                                failure_streak, opened_at, outcome, pc,
                                request_semaphore, fallback_error>>
            ELSE /\ SetCB(FallbackGivesUp(CB, answer.error, now))
                 /\ fallback_error' = answer.error
                 /\ outcome' = Raised(CombinedError(primary_error, answer.error))
                 /\ pc' = "done"
                 /\ request_semaphore' = Released(request_semaphore)
                 /\ UNCHANGED attempt
    /\ UNCHANGED <<env, now, ticks, last_request_time, client_cache,
                   primary_error, entry_errors>>

\* time passes
Tick ==
    /\ ticks < MaxTicks
    /\ UNCHANGED <<threadVars, pipelineVars>>
    /\ ticks' = ticks + 1
    /\ \E d \in Durations : now' = now + d
    /\ UNCHANGED <<env, consecutive_errors, circuit_breaker_until,
                   last_request_time, client_cache, request_semaphore, pc,
                   attempt, primary_error, fallback_error, requests, outcome,
                   entry_errors, failure_streak, opened_at>>

Next ==
    \/ \E texts_empty \in BOOLEAN : StartCall(texts_empty)
    \/ \E mp \in FactoryResults, mf \in FactoryResults : PrimarySetup(mp, mf)
    \/ \E answer \in Answers : PrimaryAttempt(answer)
    \/ AfterPrimary
    \/ \E made \in FactoryResults : FallbackSetup(made)
    \/ \E answer \in Answers : FallbackAttempt(answer)
    \/ Tick

Spec == Init /\ [][Next]_vars

TypeOK ==
    /\ env \in Envs
    /\ ticks \in 0..MaxTicks
    /\ now \in 0..(MaxTicks * CIRCUIT_BREAKER_COOLDOWN)
    /\ pc \in {"idle", "primary_setup", "primary_call", "after_primary",
               "fallback_setup", "fallback_call", "done"}
    /\ attempt \in 0..(max_retries - 1)
    /\ DOMAIN consecutive_errors \subseteq Keys
    /\ DOMAIN circuit_breaker_until \subseteq Keys

\* ------------------------------------------------------------------------
\* Properties
\* ------------------------------------------------------------------------

\* the requests of this call sent to one backend, in order
RequestsTo(role) == SelectSeq(requests, LAMBDA r : r.role = role)

\* every request of rs failed with a retryable error
AllRetryable(rs) ==
    \A i \in 1..Len(rs) :
        ~rs[i].answer.ok /\ is_retryable_error(rs[i].answer.error)

\* the primary phase of the call is over
PrimaryOver == pc \in {"after_primary", "fallback_setup", "fallback_call", "done"}

\* C1: for every endpoint key, from the moment the
\* CIRCUIT_BREAKER_THRESHOLD-th retryable record_error in a row (counted
\* since the last record_success or the last expiry of a cooldown) is
\* recorded, is_circuit_breaker_open(key) returns true at every instant
\* before the cooldown counted from that failure has elapsed.
C1_OpenUntilCooldown ==
    \A k \in DOMAIN opened_at :
        now < opened_at[k] + CIRCUIT_BREAKER_COOLDOWN
            => is_circuit_breaker_open(CB, k, now).open

\* a call finds the primary circuit open, minutes after the failure that
\* opened it and before the cooldown is over
C1_Witness ==
    /\ primary_key \in DOMAIN opened_at
    /\ now > opened_at[primary_key]
    /\ now < opened_at[primary_key] + CIRCUIT_BREAKER_COOLDOWN
    /\ pc = "after_primary"
    /\ primary_error = ErrCircuitOpen

\* C2: when all max_retries primary requests of a call failed with a
\* retryable error, the primary key's consecutive-error counter is, from
\* the end of the primary phase to the end of the call, exactly one more
\* than it was when the call passed the primary circuit check.
C2_PrimaryCountsOnce ==
    ( /\ PrimaryOver
      /\ Len(RequestsTo("primary")) = max_retries
      /\ AllRetryable(RequestsTo("primary")) )
        => Get(consecutive_errors, primary_key, 0)
               = Get(entry_errors, primary_key, 0) + 1

\* the second call in a row whose three primary requests all failed
C2_Witness ==
    /\ pc = "done"
    /\ Len(RequestsTo("primary")) = max_retries
    /\ AllRetryable(RequestsTo("primary"))
    /\ Get(entry_errors, primary_key, 0) = 1
    /\ Get(consecutive_errors, primary_key, 0) = 2

\* C3: when all max_retries fallback requests of a call failed with a
\* retryable error, the fallback key's consecutive-error counter is at the
\* end of the call exactly one more than it was when the call passed the
\* fallback circuit check.
C3_FallbackCountsOnce ==
    ( /\ pc = "done"
      /\ Len(RequestsTo("fallback")) = max_retries
      /\ AllRetryable(RequestsTo("fallback")) )
        => Get(consecutive_errors, fallback_key, 0)
               = Get(entry_errors, fallback_key, 0) + 1

\* what truncating or zero-padding one vector to d entries gives
Reconciled(v, d) == [i \in 1..d |-> IF i <= Len(v) THEN v[i] ELSE 0]

\* C4: an embedding call whose three primary requests all failed with a
\* retryable error and whose first fallback request succeeded has returned,
\* and what it returned is the fallback's vectors, each truncated or
\* zero-padded to the target dimension.
C4_FallbackResultReconciled ==
    ( /\ env.kind = "embedding"
      /\ pc = "done"
      /\ Len(RequestsTo("primary")) = max_retries
      /\ AllRetryable(RequestsTo("primary"))
      /\ Len(RequestsTo("fallback")) = 1
      /\ RequestsTo("fallback")[1].answer.ok )
        => LET fv == RequestsTo("fallback")[1].answer.vectors
           IN  /\ outcome.kind = "returned"
               /\ outcome.value =
                      [j \in 1..Len(fv) |-> Reconciled(fv[j], env.target_dims)]

\* the scenario of the specification: 503 three times, then [[1,0],[0,1],[1,1]]
C4_Witness ==
    /\ env.kind = "embedding"
    /\ env.target_dims = 3
    /\ pc = "done"
    /\ Len(RequestsTo("primary")) = max_retries
    /\ \A i \in 1..max_retries : RequestsTo("primary")[i].answer.error = Err503
    /\ Len(RequestsTo("fallback")) = 1
    /\ RequestsTo("fallback")[1].answer.vectors = << <<1, 0>>, <<0, 1>>, <<1, 1>> >>
    /\ outcome = Returned(<< <<1, 0, 0>>, <<0, 1, 0>>, <<1, 1, 0>> >>)

\* C5: a call that ends in failure although fallback is enabled and
\* configured, the fallback's circuit is closed and a fallback client is at
\* hand has sent at least one request to the fallback backend.
C5_FallbackTriedBeforeFailure ==
    ( /\ pc = "done"
      /\ outcome.kind = "raised"
      /\ env.use_fallback
      /\ env.fallback_configured
      /\ outcome.error # ErrBothOpen
      /\ fallback_key \in DOMAIN client_cache )
        => Len(RequestsTo("fallback")) >= 1

\* no primary request follows a fallback request
PrimaryBeforeFallback ==
    \A i \in 1..Len(requests) : \A j \in 1..Len(requests) :
        (i < j /\ requests[i].role = "fallback") => requests[j].role = "fallback"

\* C6 as stated: the fallback backend is called only once the primary has
\* used up its max_retries attempts or was skipped because its circuit is
\* open, and no primary request follows a fallback request.
C6_FallbackAfterExhaustionOrSkip ==
    /\ Len(RequestsTo("fallback")) >= 1
           => \/ Len(RequestsTo("primary")) = max_retries
              \/ primary_error = ErrCircuitOpen
    /\ PrimaryBeforeFallback

\* the ways the primary phase ends without a result
PrimaryEndedWithoutResult ==
    LET pr == RequestsTo("primary")
    IN  /\ PrimaryOver
        /\ primary_error # NoError
        /\ \/ Len(pr) = max_retries /\ ~pr[Len(pr)].answer.ok
           \/ /\ Len(pr) >= 1
              /\ ~pr[Len(pr)].answer.ok
              /\ ~is_retryable_error(pr[Len(pr)].answer.error)
           \/ Len(pr) = 0 /\ primary_error \in {ErrKeyMissing, ErrBothClients}
           \/ Len(pr) = 0 /\ primary_error = ErrCircuitOpen

\* C6 (amended): the fallback backend is called only once the primary
\* phase has ended without a result (its attempts used up, its retry loop
\* ended by a non-retryable error, its client not obtained, or skipped
\* because its circuit is open), and no primary request follows a fallback
\* request.
C6_FallbackAfterPrimaryEnded ==
    /\ Len(RequestsTo("fallback")) >= 1 => PrimaryEndedWithoutResult
    /\ PrimaryBeforeFallback

\* a fallback request after a single primary request that failed for good
C6_Witness ==
    /\ Len(RequestsTo("primary")) = 1
    /\ RequestsTo("primary")[1].answer.error = ErrAuth
    /\ Len(RequestsTo("fallback")) >= 2

\* C7: a call sends at most max_retries requests to the primary, at most
\* max_retries to the fallback, and so at most 2 * max_retries in all.
C7_AtMostSixRequests ==
    /\ Len(RequestsTo("primary")) <= max_retries
    /\ Len(RequestsTo("fallback")) <= max_retries
    /\ Len(requests) <= 2 * max_retries

\* both backends used up all their attempts
C7_Witness ==
    /\ pc = "done"
    /\ Len(RequestsTo("primary")) = max_retries
    /\ Len(RequestsTo("fallback")) = max_retries
    /\ outcome.kind = "raised"

\* the text of inner occurs in the text of err
Carries(err, inner) ==
    /\ inner # <<>>
    /\ \E i \in 1..Len(err) :
           /\ i + Len(inner) - 1 <= Len(err)
           /\ SubSeq(err, i, i + Len(inner) - 1) = inner

\* C8: when a call with fallback enabled ends in failure after its primary
\* phase left an error, the raised error carries that primary error (or
\* says that both circuits are open when the primary error is just that)
\* and the fallback error, if there is one.
C8_FailureCarriesBothErrors ==
    ( /\ pc = "done"
      /\ outcome.kind = "raised"
      /\ env.use_fallback
      /\ primary_error # NoError )
        => /\ \/ Carries(outcome.error, primary_error)
              \/ outcome.error = ErrBothOpen /\ primary_error = ErrCircuitOpen
           /\ fallback_error # NoError => Carries(outcome.error, fallback_error)

\* the entry of a dict for one key, as a sequence of at most one element
Entry(dict, key) == IF key \in DOMAIN dict THEN <<dict[key]>> ELSE <<>>

\* C9: with fallback disabled no step changes the rate-limit time, the
\* circuit state or the cached client of the fallback key, and a call that
\* ends in failure raises its primary error and has sent no request to the
\* fallback.
C9_DisabledFallbackUntouched ==
    [][ ~env.use_fallback =>
          /\ Entry(last_request_time', fallback_key) = Entry(last_request_time, fallback_key)
          /\ Get(consecutive_errors', fallback_key, 0) = Get(consecutive_errors, fallback_key, 0)
          /\ Entry(circuit_breaker_until', fallback_key) = Entry(circuit_breaker_until, fallback_key)
          /\ Entry(client_cache', fallback_key) = Entry(client_cache, fallback_key)
          /\ (pc' = "done" /\ outcome'.kind = "raised")
                 => /\ primary_error' # NoError
                    /\ outcome'.error = primary_error'
                    /\ Len(SelectSeq(requests', LAMBDA r : r.role = "fallback")) = 0
      ]_vars

\* C10: a call that starts while the primary circuit is open goes straight
\* on with the synthetic "Circuit breaker open" primary error, and from
\* then to its end sends no primary request and leaves the rate-limit time
\* and the cached client of the primary key as they were.
C10_OpenPrimarySkipped ==
    [][ /\ ( /\ pc \in {"idle", "done"}
             /\ pc' \notin {"idle", "done"}
             /\ primary_key \in DOMAIN circuit_breaker_until
             /\ now < circuit_breaker_until[primary_key] )
            => /\ pc' = "after_primary"
               /\ primary_error' = ErrCircuitOpen
        /\ primary_error' = ErrCircuitOpen
            => /\ Len(SelectSeq(requests', LAMBDA r : r.role = "primary")) = 0
               /\ Entry(last_request_time', primary_key) = Entry(last_request_time, primary_key)
               /\ Entry(client_cache', primary_key) = Entry(client_cache, primary_key)
               /\ pc' \notin {"primary_setup", "primary_call"}
      ]_vars

\* the call goes on to the fallback with the synthetic primary error, some
\* time after the primary was last rate limited
C10_Witness ==
    /\ pc = "fallback_call"
    /\ primary_error = ErrCircuitOpen
    /\ Len(requests) >= 1
    /\ primary_key \in DOMAIN last_request_time
    /\ last_request_time[primary_key] < now

\* the request failed with an error that is not classified retryable
Terminal(r) == ~r.answer.ok /\ ~is_retryable_error(r.answer.error)

\* C11: a request that fails with a non-retryable error is the last request
\* of the call to its backend, whatever its number; and the loop variable,
\* which has grown by one with every backoff sleep, then counts only the
\* requests before it, so that no sleep has followed the failure.
C11_TerminalErrorEndsLoop ==
    /\ \A role \in Roles :
           LET rs == RequestsTo(role)
           IN  \A i \in 1..Len(rs) : Terminal(rs[i]) => i = Len(rs)
    /\ LET pr == RequestsTo("primary")
       IN  (pc = "after_primary" /\ Len(pr) >= 1 /\ Terminal(pr[Len(pr)]))
               => attempt = Len(pr) - 1
    /\ LET fr == RequestsTo("fallback")
       IN  (pc = "done" /\ Len(fr) >= 1 /\ Terminal(fr[Len(fr)]))
               => attempt = Len(fr) - 1

\* both loops were ended by a non-retryable error with attempts left: the
\* primary's at its second request, the fallback's at its first
C11_Witness ==
    /\ pc = "done"
    /\ Len(RequestsTo("primary")) = 2
    /\ RequestsTo("primary")[1].answer.error = Err503
    /\ Terminal(RequestsTo("primary")[2])
    /\ Len(RequestsTo("fallback")) = 1
    /\ Terminal(RequestsTo("fallback")[1])
    /\ outcome.kind = "raised"

\* C12: a step of a call that records nothing but a non-retryable error (a
\* request that fails for good on a non-retryable error, a missing primary
\* API key, a fallback that is not configured) leaves
\* _consecutive_errors and _circuit_breaker_until of every key as they
\* were.
C12_TerminalErrorNotCounted ==
    [][ ( \/ /\ Len(requests') = Len(requests) + 1
             /\ Terminal(requests'[Len(requests')])
          \/ pc = "primary_setup" /\ primary_error' = ErrKeyMissing
          \/ pc = "fallback_setup" /\ fallback_error' = ErrNotConfigured )
            => /\ consecutive_errors' = consecutive_errors
               /\ circuit_breaker_until' = circuit_breaker_until
      ]_vars

\* a primary request has just failed for good on a non-retryable error
\* while the counters of both keys stand above zero
C12_Witness ==
    /\ pc = "after_primary"
    /\ Len(RequestsTo("primary")) >= 1
    /\ Terminal(requests[Len(requests)])
    /\ Get(consecutive_errors, primary_key, 0) = 2
    /\ Get(consecutive_errors, fallback_key, 0) >= 1

\* C13: a step in which a request succeeds leaves the counter of the
\* request's key at 0; in every circuit state record_success gives a
\* counter of 0 for its key; and a step that sets the open-until time of a
\* key is one at which at least CIRCUIT_BREAKER_THRESHOLD retryable
\* failures of that key have been recorded since its last success.
C13_SuccessResetsCounter ==
    [][ /\ ( /\ Len(requests') = Len(requests) + 1
             /\ requests'[Len(requests')].answer.ok )
            => Get(consecutive_errors',
                   <<env.kind, requests'[Len(requests')].role>>, 1) = 0
        /\ \A k \in {primary_key, fallback_key} :
               /\ Get(record_success(CB, k).errors, k, 1) = 0
               /\ ( /\ k \in DOMAIN circuit_breaker_until'
                    /\ Entry(circuit_breaker_until', k) # Entry(circuit_breaker_until, k) )
                       => failure_streak'[k] >= CIRCUIT_BREAKER_THRESHOLD
      ]_vars

\* two calls had left the primary's counter at 2; in this call a retryable
\* failure was followed by a success, and the circuit is closed with the
\* counter at 0
C13_Witness ==
    /\ pc = "done"
    /\ outcome.kind = "returned"
    /\ Get(entry_errors, primary_key, 0) = CIRCUIT_BREAKER_THRESHOLD - 1
    /\ Len(requests) = 2
    /\ requests[1].role = "primary" /\ requests[1].answer.error = Err503
    /\ requests[2].role = "primary" /\ requests[2].answer.ok
    /\ consecutive_errors[primary_key] = 0
    /\ primary_key \notin DOMAIN circuit_breaker_until

\* the circuit of key k is open at the present time
CircuitOpen(k) ==
    k \in DOMAIN circuit_breaker_until /\ now < circuit_breaker_until[k]

\* the step is the circuit check of key k by a call: of the primary key
\* when the call starts, of the fallback key when its primary phase is over
ChecksCircuit(k) ==
    \/ k = primary_key /\ pc \in {"idle", "done"} /\ pc' \notin {"idle", "done"}
    \/ k = fallback_key /\ pc = "after_primary" /\ ShouldTryFallback /\ pc' # pc

\* C14: a circuit check of a key made when the clock has reached the key's
\* open-until time finds the circuit closed (the call goes on to that
\* backend), removes the open-until entry and leaves the counter at 0; and
\* a key without an open-until entry gets one only at a step at which
\* CIRCUIT_BREAKER_THRESHOLD retryable failures have been recorded for it
\* since the check that removed the entry.
C14_ExpiryResetsCounter ==
    [][ \A k \in {primary_key, fallback_key} :
          /\ ( /\ ChecksCircuit(k)
               /\ k \in DOMAIN circuit_breaker_until
               /\ now >= circuit_breaker_until[k] )
              => /\ pc' = (IF k = primary_key THEN "primary_setup" ELSE "fallback_setup")
                 /\ k \notin DOMAIN circuit_breaker_until'
                 /\ Get(consecutive_errors', k, 1) = 0
          /\ ( /\ k \notin DOMAIN circuit_breaker_until
               /\ k \in DOMAIN circuit_breaker_until' )
              => failure_streak'[k] >= CIRCUIT_BREAKER_THRESHOLD
      ]_vars

\* a call has just found the cooldown of the primary over: the open-until
\* entry is gone, the counter is 0 and the call goes on to the primary, at
\* a time when the cooldown of the fallback is still running
C14_Witness ==
    /\ pc = "primary_setup"
    /\ primary_key \in DOMAIN consecutive_errors
    /\ primary_key \notin DOMAIN failure_streak
    /\ consecutive_errors[primary_key] = 0
    /\ primary_key \notin DOMAIN circuit_breaker_until
    /\ now >= CIRCUIT_BREAKER_COOLDOWN
    /\ CircuitOpen(fallback_key)

\* ------------------------------------------------------------------------
\* Concurrent callers and the circuit breaker.  NThreads threads run the
\* primary phase of create_embeddings_with_fallback for one endpoint key,
\* again and again.  The circuit-breaker dicts are module globals written
\* without a lock, so record_error is three steps of a thread: the read of
\* the counter, the store of the counter plus one, and the threshold test
\* with the store of the open-until time; any step of another thread may
\* come between them.  With no more than MAX_CONCURRENT_REQUESTS threads
\* the semaphore never blocks, and the client is in the cache.
\* ------------------------------------------------------------------------

\* the variables of the single caller of Spec
callVars ==
    <<pc, attempt, primary_error, fallback_error, requests, outcome, entry_errors>>

\* the environment of the concurrent callers: embeddings, no fallback
ThreadEnv ==
    [kind |-> "embedding", use_fallback |-> FALSE, fallback_configured |-> FALSE,
     primary_configured |-> TRUE, target_dims |-> 3]

\* a fresh process, as in Init, with the environment fixed and the thread
\* state left to the specification
FreshProcess ==
    /\ env = ThreadEnv
    /\ now = 0
    /\ ticks = 0
    /\ consecutive_errors = EmptyDict
    /\ circuit_breaker_until = EmptyDict
    /\ last_request_time = EmptyDict
    /\ client_cache = EmptyDict
    /\ request_semaphore = <<>>
    /\ pc = "idle"
    /\ attempt = 0
    /\ primary_error = NoError
    /\ fallback_error = NoError
    /\ requests = <<>>
    /\ outcome = NoOutcome
    /\ entry_errors = EmptyDict
    /\ failure_streak = EmptyDict
    /\ opened_at = EmptyDict

BreakerInit ==
    /\ FreshProcess
    /\ NoPipeline
    /\ tpc = [t \in Threads |-> "idle"]
    /\ tlocal = [t \in Threads |-> [attempt |-> 0, count |-> 0]]
    /\ history = <<>>
    /\ client_cache_lock = <<>>
    /\ semaphores = <<>>

\* what the circuit-breaker steps of a thread leave alone
BreakerFrame ==
    UNCHANGED <<env, now, ticks, last_request_time, client_cache,
                request_semaphore, callVars, pipelineVars, history, client_cache_lock,
                semaphores>>

\* "if is_circuit_breaker_open(primary_key)" at the start of a call; with
\* the circuit open and no fallback the call raises at once
CircuitCheck(t) ==
    /\ tpc[t] = "idle"
    /\ LET r == is_circuit_breaker_open(CB, primary_key, now)
       IN  /\ SetCB(r.cb)
           /\ tpc' = [tpc EXCEPT ![t] = IF r.open THEN "idle" ELSE "request"]
    /\ tlocal' = [tlocal EXCEPT ![t] = [attempt |-> 0, count |-> 0]]
    /\ BreakerFrame

\* one iteration of the retry loop: the request and what follows its answer
\* up to the next request, the return, or the entry of record_error
Request(t, answer) ==
    /\ tpc[t] = "request"
    /\ IF answer.ok
       THEN /\ SetCB(record_success(CB, primary_key))
            /\ tpc' = [tpc EXCEPT ![t] = "idle"]
            /\ UNCHANGED tlocal
       ELSE IF ShouldRetry(answer.error, tlocal[t].attempt)
            THEN /\ tlocal' = [tlocal EXCEPT ![t].attempt = @ + 1]
                 /\ UNCHANGED <<tpc, consecutive_errors, circuit_breaker_until,
                                failure_streak, opened_at>>
            ELSE /\ tpc' = [tpc EXCEPT ![t] =
                                IF is_retryable_error(answer.error)
                                THEN "record_read" ELSE "idle"]
                 /\ UNCHANGED <<tlocal, consecutive_errors, circuit_breaker_until,
                                failure_streak, opened_at>>
    /\ BreakerFrame

\* record_error: "_consecutive_errors.get(endpoint_key, 0)"
RecordRead(t) ==
    /\ tpc[t] = "record_read"
    /\ tlocal' = [tlocal EXCEPT ![t].count = Get(consecutive_errors, primary_key, 0)]
    /\ tpc' = [tpc EXCEPT ![t] = "record_write"]
    /\ UNCHANGED <<consecutive_errors, circuit_breaker_until, failure_streak, opened_at>>
    /\ BreakerFrame

\* record_error: "_consecutive_errors[endpoint_key] = ... + 1"; the history
\* failure_streak counts the failure whatever the counter does
RecordWrite(t) ==
    /\ tpc[t] = "record_write"
    /\ Get(failure_streak, primary_key, 0) < MaxErrors
    /\ consecutive_errors' = Put(consecutive_errors, primary_key, tlocal[t].count + 1)
    /\ failure_streak' =
           Put(failure_streak, primary_key, Get(failure_streak, primary_key, 0) + 1)
    /\ tpc' = [tpc EXCEPT ![t] = "record_trip"]
    /\ UNCHANGED <<tlocal, circuit_breaker_until, opened_at>>
    /\ BreakerFrame

\* record_error: "if _consecutive_errors[endpoint_key] >= CIRCUIT_BREAKER_THRESHOLD:
\* _circuit_breaker_until[endpoint_key] = datetime.now() + timedelta(minutes=5)"
RecordTrip(t) ==
    /\ tpc[t] = "record_trip"
    /\ circuit_breaker_until' =
           IF Get(consecutive_errors, primary_key, 0) >= CIRCUIT_BREAKER_THRESHOLD
           THEN Put(circuit_breaker_until, primary_key, now + CIRCUIT_BREAKER_COOLDOWN)
           ELSE circuit_breaker_until
    /\ tpc' = [tpc EXCEPT ![t] = "idle"]
    /\ UNCHANGED <<tlocal, consecutive_errors, failure_streak, opened_at>>
    /\ BreakerFrame

BreakerNext ==
    \/ \E t \in Threads : CircuitCheck(t)
    \/ \E t \in Threads : \E answer \in Answers : Request(t, answer)
    \/ \E t \in Threads : RecordRead(t)
    \/ \E t \in Threads : RecordWrite(t)
    \/ \E t \in Threads : RecordTrip(t)
    \/ Tick

SpecBreaker == BreakerInit /\ [][BreakerNext]_vars

\* the step is a backend request of thread t
SendsRequest(t) ==
    /\ tpc[t] = "request"
    /\ tpc'[t] # "request" \/ tlocal'[t].attempt # tlocal[t].attempt

\* C15: no thread sends a request to the backend of a key at a time when
\* the circuit of that key is open.
C15_NoRequestWhileOpen ==
    [][ \A t \in Threads : SendsRequest(t) => ~CircuitOpen(primary_key) ]_vars

\* C17: the counter of a key is at every moment the number of retryable
\* failures recorded for it since its last reset, and once
\* CIRCUIT_BREAKER_THRESHOLD of them are recorded and no thread is still
\* inside record_error, the key has an open-until time.
C17_RecordsSerialized ==
    /\ Get(consecutive_errors, primary_key, 0) = Get(failure_streak, primary_key, 0)
    /\ ( /\ Get(failure_streak, primary_key, 0) >= CIRCUIT_BREAKER_THRESHOLD
         /\ \A t \in Threads : tpc[t] \notin {"record_trip"} )
            => primary_key \in DOMAIN circuit_breaker_until

\* C36: a success recorded while the circuit of a key is open does not
\* close it: as long as the open-until time lies ahead, whatever the
\* threads record, the time stays as it is and is_circuit_breaker_open
\* answers true.
C36_SuccessKeepsCircuitOpen ==
    [][ (/\ primary_key \in DOMAIN circuit_breaker_until
         /\ now' < circuit_breaker_until[primary_key])
            => /\ primary_key \in DOMAIN circuit_breaker_until'
               /\ circuit_breaker_until'[primary_key] >= circuit_breaker_until[primary_key]
               /\ is_circuit_breaker_open(CB', primary_key, now').open ]_vars

\* the circuit is open and the counter is 0: a call that was in flight when
\* the circuit opened has recorded its success since
C36_Witness ==
    /\ primary_key \in DOMAIN circuit_breaker_until
    /\ now < circuit_breaker_until[primary_key]
    /\ primary_key \in DOMAIN consecutive_errors
    /\ consecutive_errors[primary_key] = 0
    /\ is_circuit_breaker_open(CB, primary_key, now).open

\* ------------------------------------------------------------------------
\* Concurrent callers and the rate limiter.  NThreads threads call
\* rate_limit_delay for one endpoint key, again and again; they do so
\* inside "with semaphore", which admits MAX_CONCURRENT_REQUESTS of them
\* at a time.  In this specification the clock counts tenths of a second
\* and starts RATE_LIMIT_DELAY after the epoch.  _last_request_time is read
\* and written without a lock, and the thread sleeps between the two.
\* ------------------------------------------------------------------------

\* no sleep takes the clock beyond LimiterHorizon
LimiterHorizon == RATE_LIMIT_DELAY * (MaxTicks + 2)

LimiterInit ==
    /\ env = ThreadEnv
    /\ now = RATE_LIMIT_DELAY
    /\ ticks = 0
    /\ consecutive_errors = EmptyDict
    /\ circuit_breaker_until = EmptyDict
    /\ last_request_time = EmptyDict
    /\ client_cache = EmptyDict
    /\ request_semaphore = <<>>
    /\ pc = "idle"
    /\ attempt = 0
    /\ primary_error = NoError
    /\ fallback_error = NoError
    /\ requests = <<>>
    /\ outcome = NoOutcome
    /\ entry_errors = EmptyDict
    /\ failure_streak = EmptyDict
    /\ opened_at = EmptyDict
    /\ NoPipeline
    /\ tpc = [t \in Threads |-> "idle"]
    /\ tlocal = [t \in Threads |-> [current_time |-> 0, last_time |-> 0, delay |-> 0]]
    /\ history = <<>>
    /\ client_cache_lock = <<>>
    /\ semaphores = <<>>

\* what the rate-limiter steps of a thread leave alone
LimiterFrame ==
    UNCHANGED <<env, ticks, consecutive_errors, circuit_breaker_until,
                client_cache, request_semaphore, callVars, pipelineVars, failure_streak,
                opened_at, history, client_cache_lock, semaphores>>

\* "current_time = time.time(); last_time = _last_request_time.get(endpoint_key, 0);
\* time_diff = current_time - last_time; if time_diff < RATE_LIMIT_DELAY:
\* delay = RATE_LIMIT_DELAY - time_diff"
LimiterRead(t) ==
    /\ tpc[t] = "idle"
    /\ LET current_time == now
           last_time == Get(last_request_time, primary_key, 0)
           time_diff == current_time - last_time
       IN  IF time_diff < RATE_LIMIT_DELAY
           THEN /\ tlocal' = [tlocal EXCEPT ![t] =
                                 [current_time |-> current_time, last_time |-> last_time,
                                  delay |-> RATE_LIMIT_DELAY - time_diff]]
                /\ tpc' = [tpc EXCEPT ![t] = "sleep"]
           ELSE /\ tlocal' = [tlocal EXCEPT ![t] =
                                 [current_time |-> current_time, last_time |-> last_time,
                                  delay |-> 0]]
                /\ tpc' = [tpc EXCEPT ![t] = "store"]
    /\ UNCHANGED <<now, last_request_time>>
    /\ LimiterFrame

\* "time.sleep(delay)": the thread goes on when the clock is delay past the
\* time it read, and the clock gets there if it has not yet
LimiterSleep(t) ==
    /\ tpc[t] = "sleep"
    /\ LET wake == tlocal[t].current_time + tlocal[t].delay
       IN  /\ wake <= LimiterHorizon
           /\ now' = IF now < wake THEN wake ELSE now
    /\ tpc' = [tpc EXCEPT ![t] = "store"]
    /\ UNCHANGED <<tlocal, last_request_time>>
    /\ LimiterFrame

\* "_last_request_time[endpoint_key] = time.time()" and the return
LimiterStore(t) ==
    /\ tpc[t] = "store"
    /\ last_request_time' = Put(last_request_time, primary_key, now)
    /\ tpc' = [tpc EXCEPT ![t] = "idle"]
    /\ UNCHANGED <<now, tlocal>>
    /\ LimiterFrame

LimiterNext ==
    \/ \E t \in Threads : LimiterRead(t)
    \/ \E t \in Threads : LimiterSleep(t)
    \/ \E t \in Threads : LimiterStore(t)
    \/ Tick

SpecLimiter == LimiterInit /\ [][LimiterNext]_vars

\* the step is the return of a rate_limit_delay call of thread t
LimiterReturns(t) == tpc[t] = "store" /\ tpc'[t] = "idle"

\* C16: a call of rate_limit_delay for a key returns at least
\* RATE_LIMIT_DELAY after the call for that key that returned last before
\* it, whose return time is what _last_request_time holds for the key.
C16_ReturnsSpacedApart ==
    [][ \A t \in Threads :
          (LimiterReturns(t) /\ primary_key \in DOMAIN last_request_time)
              => now - last_request_time[primary_key] >= RATE_LIMIT_DELAY ]_vars

\* ------------------------------------------------------------------------
\* Concurrent callers and the global semaphore.  NCallers threads call
\* get_global_semaphore and hold what it returned around a provider
\* attempt, again and again.  A threading.Semaphore object is known by its
\* place in semaphores, which holds its free permits; in this
\* specification request_semaphore is <<>> for None and <<i>> for the i-th
\* object.  get_global_semaphore takes no lock: the test for None, the
\* creation with the store, and the read for the return are steps of their
\* own.
\* ------------------------------------------------------------------------

Callers == 1..NCallers

SemaphoreInit ==
    /\ FreshProcess
    /\ NoPipeline
    /\ tpc = [t \in Callers |-> "idle"]
    /\ tlocal = [t \in Callers |-> 0]
    /\ history = <<>>
    /\ client_cache_lock = <<>>
    /\ semaphores = <<>>

\* what the semaphore steps of a thread leave alone
SemaphoreFrame ==
    UNCHANGED <<env, now, ticks, consecutive_errors, circuit_breaker_until,
                last_request_time, client_cache, callVars, pipelineVars, failure_streak,
                opened_at, history, client_cache_lock>>

\* the threads that have found no semaphore and are about to create one
Creating == {t \in Callers : tpc[t] = "create"}

\* "if _request_semaphore is None"; of the callers that arrive before the
\* semaphore is stored, MaxSemaphores are followed
SemaphoreTest(t) ==
    /\ tpc[t] = "idle"
    /\ request_semaphore = <<>> => Cardinality(Creating) < MaxSemaphores
    /\ tpc' = [tpc EXCEPT ![t] = IF request_semaphore = <<>> THEN "create" ELSE "return"]
    /\ UNCHANGED <<tlocal, request_semaphore, semaphores>>
    /\ SemaphoreFrame

\* "_request_semaphore = threading.Semaphore(0)": a semaphore that has no
\* permit to give
SemaphoreCreate_empty(t) ==
    /\ tpc[t] = "create"
    /\ semaphores' = Append(semaphores, 0)
    /\ request_semaphore' = <<Len(semaphores) + 1>>
    /\ tpc' = [tpc EXCEPT ![t] = "return"]
    /\ UNCHANGED tlocal
    /\ SemaphoreFrame

\* "_request_semaphore = threading.Semaphore(MAX_CONCURRENT_REQUESTS)"
SemaphoreCreate(t) ==
    /\ tpc[t] = "create"
    /\ semaphores' = Append(semaphores, MAX_CONCURRENT_REQUESTS)
    /\ request_semaphore' = <<Len(semaphores) + 1>>
    /\ tpc' = [tpc EXCEPT ![t] = "return"]
    /\ UNCHANGED tlocal
    /\ SemaphoreFrame

\* "return _request_semaphore", assigned to the caller's local semaphore
SemaphoreReturn(t) ==
    /\ tpc[t] = "return"
    /\ tlocal' = [tlocal EXCEPT ![t] = request_semaphore[1]]
    /\ tpc' = [tpc EXCEPT ![t] = "acquire"]
    /\ UNCHANGED <<request_semaphore, semaphores>>
    /\ SemaphoreFrame

\* "with semaphore:" entered: the thread waits for a permit of its semaphore
SemaphoreAcquire(t) ==
    /\ tpc[t] = "acquire"
    /\ semaphores[tlocal[t]] > 0
    /\ semaphores' = [semaphores EXCEPT ![tlocal[t]] = @ - 1]
    /\ tpc' = [tpc EXCEPT ![t] = "attempt"]
    /\ UNCHANGED <<tlocal, request_semaphore>>
    /\ SemaphoreFrame

\* "with semaphore:" left after the provider attempt; the call ends and its
\* local semaphore with it
SemaphoreRelease(t) ==
    /\ tpc[t] = "attempt"
    /\ semaphores' = [semaphores EXCEPT ![tlocal[t]] = @ + 1]
    /\ tpc' = [tpc EXCEPT ![t] = "idle"]
    /\ tlocal' = [tlocal EXCEPT ![t] = 0]
    /\ UNCHANGED request_semaphore
    /\ SemaphoreFrame

SemaphoreNext ==
    \/ \E t \in Callers : SemaphoreTest(t)
    \/ \E t \in Callers : SemaphoreCreate(t)
    \/ \E t \in Callers : SemaphoreReturn(t)
    \/ \E t \in Callers : SemaphoreAcquire(t)
    \/ \E t \in Callers : SemaphoreRelease(t)

SpecSemaphore == SemaphoreInit /\ [][SemaphoreNext]_vars

\* the threads with a provider attempt in progress
InProgress == {t \in Callers : tpc[t] = "attempt"}

\* C18: at most MAX_CONCURRENT_REQUESTS provider attempts are in progress at
\* any moment, whichever way the first calls of get_global_semaphore
\* interleave.
C18_AtMostMaxInProgress == Cardinality(InProgress) <= MAX_CONCURRENT_REQUESTS

\* the scheduler is fair: a thread that can take a step does so, every
\* provider attempt ends, and a thread that waits for a permit which is free
\* again and again gets it in the end
SpecSemaphoreFair ==
    /\ SpecSemaphore
    /\ \A t \in Callers :
           /\ WF_vars(\/ SemaphoreTest(t)
                      \/ SemaphoreCreate(t)
                      \/ SemaphoreReturn(t)
                      \/ SemaphoreRelease(t))
           /\ SF_vars(SemaphoreAcquire(t))

CacheDurations == {1, ClientCacheTtlMinutes - 1}

CacheInit ==
    /\ FreshProcess
    /\ NoPipeline
    /\ tpc = [t \in Threads |-> "idle"]
    /\ tlocal = [t \in Threads |-> [current_time |-> 0, client |-> 0]]
    /\ history = <<>>
    /\ client_cache_lock = <<>>
    /\ semaphores = <<>>

\* what the cache steps of a thread leave alone
CacheFrame ==
    UNCHANGED <<env, now, ticks, consecutive_errors, circuit_breaker_until,
                last_request_time, request_semaphore, callVars, pipelineVars, failure_streak,
                opened_at, semaphores>>

Event(op, t, client) ==
    [op |-> op, thread |-> t, time |-> tlocal[t].current_time, client |-> client]

\* the calls that have ended
Ended == SelectSeq(history, LAMBDA e : e.op \in {"returned", "raised"})

\* a lock that lets everyone in
LockFree_always(lock) == TRUE

\* threading.Lock: free when no thread holds it
LockFree(lock) == lock = <<>>

\* the expiry test with "<=" in place of "<"
CacheValid_late(cache, client_key, current_time) ==
    /\ client_key \in DOMAIN cache
    /\ current_time - cache[client_key].created_at <= ClientCacheTtlMinutes

\* "if client_key in _client_cache" and
\* "if current_time - client_data['created_at'] < CLIENT_CACHE_TTL"
CacheValid(cache, client_key, current_time) ==
    /\ client_key \in DOMAIN cache
    /\ current_time - cache[client_key].created_at < ClientCacheTtlMinutes

\* "with _client_cache_lock: current_time = time.time()"
CacheEnter(t) ==
    /\ tpc[t] = "idle"
    /\ Len(Ended) + Cardinality({u \in Threads : tpc[u] # "idle"}) < MaxCalls
    /\ LockFree(client_cache_lock)
    /\ client_cache_lock' = <<t>>
    /\ tlocal' = [tlocal EXCEPT ![t] = [current_time |-> now, client |-> 0]]
    /\ tpc' = [tpc EXCEPT ![t] = "lookup"]
    /\ UNCHANGED <<client_cache, history>>
    /\ CacheFrame

\* the lookup: a valid entry is returned, an expired one deleted
CacheLookup(t) ==
    /\ tpc[t] = "lookup"
    /\ IF CacheValid(client_cache, primary_key, tlocal[t].current_time)
       THEN /\ history' = Append(history,
                                 Event("returned", t, client_cache[primary_key].client))
            /\ tpc' = [tpc EXCEPT ![t] = "idle"]
            /\ client_cache_lock' = <<>>
            /\ UNCHANGED client_cache
       ELSE /\ client_cache' = IF primary_key \in DOMAIN client_cache
                               THEN Del(client_cache, primary_key)
                               ELSE client_cache
            /\ tpc' = [tpc EXCEPT ![t] = "create"]
            /\ UNCHANGED <<history, client_cache_lock>>
    /\ UNCHANGED tlocal
    /\ CacheFrame

\* "client = create_func()": a new client, or an exception that leaves the
\* with block
CacheCreate(t, made) ==
    /\ tpc[t] = "create"
    /\ IF made.ok
       THEN LET client == Len(SelectSeq(history, LAMBDA e : e.op = "made")) + 1
            IN  /\ tlocal' = [tlocal EXCEPT ![t].client = client]
                /\ history' = Append(history, Event("made", t, client))
                /\ tpc' = [tpc EXCEPT ![t] = "store"]
                /\ UNCHANGED client_cache_lock
       ELSE /\ history' = Append(history, Event("raised", t, 0))
            /\ tpc' = [tpc EXCEPT ![t] = "idle"]
            /\ client_cache_lock' = <<>>
            /\ UNCHANGED tlocal
    /\ UNCHANGED client_cache
    /\ CacheFrame

\* "_client_cache[client_key] = {'client': client, 'created_at': current_time}"
\* and "return client"
CacheStore(t) ==
    /\ tpc[t] = "store"
    /\ client_cache' =
           Put(client_cache, primary_key,
               [client |-> tlocal[t].client, created_at |-> tlocal[t].current_time])
    /\ history' = Append(history, Event("returned", t, tlocal[t].client))
    /\ tpc' = [tpc EXCEPT ![t] = "idle"]
    /\ client_cache_lock' = <<>>
    /\ UNCHANGED tlocal
    /\ CacheFrame

\* time passes
CacheTick ==
    /\ ticks < MaxCacheTicks
    /\ ticks' = ticks + 1
    /\ \E d \in CacheDurations : now' = now + d
    /\ UNCHANGED <<env, consecutive_errors, circuit_breaker_until,
                   last_request_time, client_cache, request_semaphore, callVars, pipelineVars,
                   failure_streak, opened_at, threadVars>>

CacheNext ==
    \/ \E t \in Threads : CacheEnter(t)
    \/ \E t \in Threads : CacheLookup(t)
    \/ \E t \in Threads : \E made \in FactoryResults : CacheCreate(t, made)
    \/ \E t \in Threads : CacheStore(t)
    \/ CacheTick

SpecCache == CacheInit /\ [][CacheNext]_vars

\* the places in history of the events of one kind
EventsOf(op) == {i \in 1..Len(history) : history[i].op = op}

\* C19 as stated: two calls that return less than the time-to-live apart
\* return the identical client.
C19_SameClientWithinTtlApart ==
    \A i \in EventsOf("returned") : \A j \in EventsOf("returned") :
        (i < j /\ history[j].time - history[i].time < ClientCacheTtlMinutes)
            => history[j].client = history[i].client

\* C19 (amended): a call that returns later than the making of a client and
\* was made less than the time-to-live after the call that made it returns
\* that client, and create_func has not run between the two; a call made
\* the time-to-live or more after the making call returns another client,
\* made by a run of create_func after the first.
C19_SameClientUntilTtlSinceCreation ==
    \A i \in EventsOf("made") : \A j \in EventsOf("returned") :
        i < j =>
            IF history[j].time - history[i].time < ClientCacheTtlMinutes
            THEN /\ history[j].client = history[i].client
                 /\ \A k \in EventsOf("made") \cup EventsOf("raised") : ~(i < k /\ k < j)
            ELSE /\ history[j].client # history[i].client
                 /\ \E k \in EventsOf("made") :
                        i < k /\ k < j /\ history[k].client = history[j].client

\* a client made at minute 0 was returned again 59 minutes later, and the
\* call a minute after that made and returned another
C19_Witness ==
    /\ Len(Ended) = 3
    /\ \A i \in 1..3 : Ended[i].op = "returned"
    /\ Ended[2].time - Ended[1].time = ClientCacheTtlMinutes - 1
    /\ Ended[3].time - Ended[1].time = ClientCacheTtlMinutes
    /\ Ended[1].client = Ended[2].client
    /\ Ended[3].client # Ended[1].client

\* C20: whichever way the threads interleave, two clients are made at least
\* the time-to-live apart, no second run of create_func begins inside the
\* window of a client made, a thread that is handed a client inside that
\* window is handed that one, and the client the cache holds is the one
\* made last.
C20_OneClientPerWindow ==
    /\ \A i \in EventsOf("made") :
           \A j \in EventsOf("made") \cup EventsOf("raised") \cup EventsOf("returned") :
               (i < j /\ history[j].time - history[i].time < ClientCacheTtlMinutes)
                   => history[j].op = "returned" /\ history[j].client = history[i].client
    /\ primary_key \in DOMAIN client_cache
           => /\ EventsOf("made") # {}
              /\ client_cache[primary_key].client = Cardinality(EventsOf("made"))
    /\ Cardinality({t \in Threads : tpc[t] \in {"lookup", "create", "store"}}) <= 1

\* two threads were handed the one client of the window, the second while
\* the first was still inside its call for a time
C20_Witness ==
    /\ Len(Ended) >= 2
    /\ Ended[1].op = "returned" /\ Ended[2].op = "returned"
    /\ Ended[1].thread # Ended[2].thread
    /\ Ended[1].client = Ended[2].client
    /\ Ended[2].time > Ended[1].time
    /\ Cardinality(EventsOf("made")) = 1

\* ------------------------------------------------------------------------
\* Functions called on their own: handle_dimension_mismatch of utils.py and
\* smart_chunk_markdown of crawl4ai_mcp.py.  args holds the arguments of
\* one call and result what the call returned.  A text is a sequence of
\* characters.
\* ------------------------------------------------------------------------

\* the vectors given to handle_dimension_mismatch: 1, 2, ..., n for every
\* length n up to MaxDims, the empty vector among them
Vectors == {[i \in 1..n |-> i] : n \in 0..MaxDims}

\* lists of up to MaxVectors vectors, of one length or of several
VectorLists ==
    UNION {[1..n -> Vectors] : n \in 0..MaxVectors}

ReconcileArgs ==
    [fn : {"handle_dimension_mismatch"}, embeddings : VectorLists,
     target_dims : 1..MaxDims]

\* the characters of a text: a letter, a blank, a newline, a full stop and
\* a backtick, written "^"
Chars == {"a", " ", "\n", ".", "^"}

\* the texts of up to MaxLen characters
Texts == UNION {[1..n -> Chars] : n \in 0..MaxLen}

ChunkArgs ==
    [fn : {"smart_chunk_markdown"}, text : Texts, chunk_size : 1..MaxChunkSize]

\* str.strip(".\n "): full stops are taken off the ends as well
Strip_stops(s) ==
    LET inked == {i \in 1..Len(s) : s[i] \notin {" ", "\n", "."}}
    IN  IF inked = {}
        THEN <<>>
        ELSE SubSeq(s, CHOOSE i \in inked : \A k \in inked : i <= k,
                       CHOOSE i \in inked : \A k \in inked : i >= k)

\* str.strip(): without the whitespace at both ends
Strip(s) ==
    LET inked == {i \in 1..Len(s) : s[i] \notin {" ", "\n"}}
    IN  IF inked = {}
        THEN <<>>
        ELSE SubSeq(s, CHOOSE i \in inked : \A k \in inked : i <= k,
                       CHOOSE i \in inked : \A k \in inked : i >= k)

\* str.rfind(sub): the highest index, counted from 0, at which sub begins,
\* or -1
RFind(s, sub) ==
    LET at == {i \in 1..(Len(s) - Len(sub) + 1) : SubSeq(s, i, i + Len(sub) - 1) = sub}
    IN  IF at = {} THEN -1 ELSE (CHOOSE i \in at : \A k \in at : i >= k) - 1

\* a slice that takes no notice of its end
Slice_open(text, start, end) == SubSeq(text, start + 1, Len(text))

\* text[start:end] of Python, start and end counted from 0
Slice(text, start, end) ==
    SubSeq(text, start + 1, IF end < Len(text) THEN end ELSE Len(text))

\* where the chunk that begins at start ends: "end = start + chunk_size"
\* and the three places to break at, each taken only beyond 30% of
\* chunk_size
ChunkEnd(text, start, chunk_size) ==
    LET chunk == Slice(text, start, start + chunk_size)
        code_block == RFind(chunk, <<"^", "^", "^">>)
        last_break == RFind(chunk, <<"\n", "\n">>)
        last_period == RFind(chunk, <<".", " ">>)
    IN  IF code_block # -1 /\ 10 * code_block > 3 * chunk_size
        THEN start + code_block
        ELSE IF last_break # -1
             THEN IF 10 * last_break > 3 * chunk_size
                  THEN start + last_break
                  ELSE start + chunk_size
             ELSE IF last_period # -1 /\ 10 * last_period > 3 * chunk_size
                  THEN start + last_period + 1
                  ELSE start + chunk_size

\* the while loop of smart_chunk_markdown from position start on
RECURSIVE ChunksFrom(_, _, _)
ChunksFrom(text, start, chunk_size) ==
    IF ~(start < Len(text))
    THEN <<>>
    ELSE IF start + chunk_size >= Len(text)
         THEN <<Strip(Slice(text, start, Len(text)))>>
         ELSE LET end == ChunkEnd(text, start, chunk_size)
                  chunk == Strip(Slice(text, start, end))
              IN  (IF chunk # <<>> THEN <<chunk>> ELSE <<>>)
                      \o ChunksFrom(text, end, chunk_size)

smart_chunk_markdown(text, chunk_size) == ChunksFrom(text, 0, chunk_size)

FunctionInit ==
    /\ FreshProcess
    /\ NoThreads
    /\ args \in ReconcileArgs \cup ChunkArgs
    /\ result = <<>>
    /\ crawled_pages = <<>>
    /\ sources = <<>>
    /\ ipc = "idle"
    /\ ilocal = <<>>
    /\ oplog = <<>>
    /\ ingested = <<>>
    /\ locals = <<>>

\* the call of the function named in args
FunctionCall ==
    /\ result = <<>>
    /\ result' =
           IF args.fn = "handle_dimension_mismatch"
           THEN <<handle_dimension_mismatch(args.embeddings, args.target_dims)>>
           ELSE <<smart_chunk_markdown(args.text, args.chunk_size)>>
    /\ UNCHANGED <<env, now, ticks, consecutive_errors, circuit_breaker_until,
                   last_request_time, client_cache, request_semaphore, callVars,
                   failure_streak, opened_at, threadVars, crawled_pages, sources,
                   ipc, ilocal, oplog, ingested, args, locals>>

SpecFunctions == FunctionInit /\ [][FunctionCall]_vars

\* C21: handle_dimension_mismatch(vectors, target_dims) returns, for every
\* list of vectors, vectors that each have exactly target_dims entries, and
\* applied to its own result it changes nothing.
C21_EveryVectorOfTargetLength ==
    (args # <<>> /\ args.fn = "handle_dimension_mismatch" /\ result # <<>>) =>
        /\ Len(result[1]) = Len(args.embeddings)
        /\ \A i \in 1..Len(result[1]) : Len(result[1][i]) = args.target_dims
        /\ handle_dimension_mismatch(result[1], args.target_dims) = result[1]

\* the characters of a text that are not whitespace, in order
Ink(s) == SelectSeq(s, LAMBDA c : c \notin {" ", "\n"})

\* the chunks one after the other
RECURSIVE Joined(_)
Joined(chunks) ==
    IF chunks = <<>> THEN <<>> ELSE Head(chunks) \o Joined(Tail(chunks))

\* C30: for every text and every chunk_size of at least 1, the chunks
\* smart_chunk_markdown returns, joined in order and with all whitespace
\* removed, are the text with all whitespace removed: nothing is dropped,
\* doubled or moved.
C30_ChunksReconstructText ==
    (args # <<>> /\ args.fn = "smart_chunk_markdown" /\ result # <<>>) =>
        Ink(Joined(result[1])) = Ink(args.text)

\* a text cut in front of a code fence, with the whitespace there lost
C30_Witness ==
    /\ args # <<>>
    /\ args.fn = "smart_chunk_markdown"
    /\ args.chunk_size = MaxChunkSize
    /\ result # <<>>
    /\ result[1] = << <<"a">>, <<"^", "^", "^", "a">> >>
    /\ Len(Joined(result[1])) < Len(args.text)

\* C31: for every text and every chunk_size of at least 1, no chunk that
\* smart_chunk_markdown returns is longer than chunk_size characters.
C31_NoChunkLongerThanSize ==
    (args # <<>> /\ args.fn = "smart_chunk_markdown" /\ result # <<>>) =>
        \A i \in 1..Len(result[1]) : Len(result[1][i]) <= args.chunk_size

\* a text longer than the largest chunk_size, with no place to break at,
\* cut at the edge of the window: the first chunk is as long as allowed
C31_Witness ==
    /\ args # <<>>
    /\ args.fn = "smart_chunk_markdown"
    /\ args.chunk_size = MaxChunkSize
    /\ Len(args.text) > MaxChunkSize
    /\ result # <<>>
    /\ Len(result[1]) = 2
    /\ Len(result[1][1]) = MaxChunkSize

\* C38: no chunk that smart_chunk_markdown returns is empty: every one of
\* them, the last included, holds a character that is not whitespace.
C38_NoEmptyChunk ==
    (args # <<>> /\ args.fn = "smart_chunk_markdown" /\ result # <<>>) =>
        \A i \in 1..Len(result[1]) : Ink(result[1][i]) # <<>>

\* ------------------------------------------------------------------------
\* smart_chunk_markdown pass by pass: locals holds start and chunks, and, as
\* history, the windows cut so far, each with the place where it began and
\* the place where it was cut.  chunk_size is whatever integer the caller
\* of smart_crawl_url gave, 0 included.
\* ------------------------------------------------------------------------

\* longer texts of letters and backticks only, of up to MaxFenced
\* characters, chunked with a chunk_size of up to MaxFenceChunk
MaxFenced == 8
MaxFenceChunk == 7
FencedTexts == UNION {[1..n -> {"a", "^"}] : n \in 1..MaxFenced}

LoopArgs ==
    [fn : {"smart_chunk_markdown"}, text : Texts, chunk_size : 0..MaxChunkSize]
        \cup [fn : {"smart_chunk_markdown"}, text : FencedTexts,
              chunk_size : 1..MaxFenceChunk]

ChunkInit ==
    /\ FreshProcess
    /\ NoThreads
    /\ crawled_pages = <<>>
    /\ sources = <<>>
    /\ ipc = "idle"
    /\ ilocal = <<>>
    /\ oplog = <<>>
    /\ ingested = <<>>
    /\ args \in LoopArgs
    /\ result = <<>>
    /\ locals = [start |-> 0, chunks |-> <<>>, cuts |-> {}]

\* one pass of "while start < text_length", or the return when the
\* condition fails; the pass that takes what is left returns as well
ChunkStep ==
    /\ result = <<>>
    /\ LET text == args.text
           chunk_size == args.chunk_size
           start == locals.start
       IN  IF ~(start < Len(text))
           THEN /\ result' = <<locals.chunks>>
                /\ UNCHANGED locals
           ELSE IF start + chunk_size >= Len(text)
                THEN LET chunks == Append(locals.chunks, Strip(Slice(text, start, Len(text))))
                     IN  /\ locals' = [locals EXCEPT !.chunks = chunks]
                         /\ result' = <<chunks>>
                ELSE LET end == ChunkEnd(text, start, chunk_size)
                         chunk == Strip(Slice(text, start, end))
                     IN  /\ locals' =
                                [start |-> end,
                                 chunks |-> IF chunk # <<>>
                                            THEN Append(locals.chunks, chunk)
                                            ELSE locals.chunks,
                                 cuts |-> locals.cuts \cup {<<start, end>>}]
                         /\ UNCHANGED result
    /\ UNCHANGED <<env, now, ticks, consecutive_errors, circuit_breaker_until,
                   last_request_time, client_cache, request_semaphore, callVars,
                   failure_streak, opened_at, threadVars, crawled_pages, sources,
                   ipc, ilocal, oplog, ingested, args>>

SpecChunks == ChunkInit /\ [][ChunkStep]_vars

\* the texts of up to MaxFairLen characters, with the loop never kept from
\* making its next pass
MaxFairLen == 3
ShortChunkInit == ChunkInit /\ Len(args.text) <= MaxFairLen
SpecChunksFair == ShortChunkInit /\ [][ChunkStep]_vars /\ WF_vars(ChunkStep)

\* a place to break at counts when it is there and beyond 30% of chunk_size
Past(pos, chunk_size) == pos # -1 /\ 10 * pos > 3 * chunk_size

\* where the window that begins at start is to be cut: at the last code
\* fence beyond 30%, else at the last blank line beyond 30%, else behind
\* the last full stop with a blank beyond 30%, else at the edge
PreferredCut(text, start, chunk_size) ==
    LET chunk == Slice(text, start, start + chunk_size)
        fence == RFind(chunk, <<"^", "^", "^">>)
        paragraph == RFind(chunk, <<"\n", "\n">>)
        sentence == RFind(chunk, <<".", " ">>)
    IN  IF Past(fence, chunk_size) THEN start + fence
        ELSE IF Past(paragraph, chunk_size) THEN start + paragraph
        ELSE IF Past(sentence, chunk_size) THEN start + sentence + 1
        ELSE start + chunk_size

\* C32: with a chunk_size of at least 1, every window is cut at the last
\* code fence if that lies beyond 30% of the window, else at the last blank
\* line if that lies beyond 30%, else behind the last sentence end if that
\* lies beyond 30%, else at the edge of the window.
C32_CutAtPreferredBoundary ==
    args.chunk_size >= 1 =>
        \A w \in locals.cuts : w[2] = PreferredCut(args.text, w[1], args.chunk_size)

\* the code fences of a text, counted from the left as str.count does
RECURSIVE Fences(_)
Fences(s) ==
    IF Len(s) < 3 THEN 0
    ELSE IF SubSeq(s, 1, 3) = <<"^", "^", "^">>
         THEN 1 + Fences(SubSeq(s, 4, Len(s)))
         ELSE Fences(Tail(s))

\* C33: a window that is cut at a code fence is cut outside every fenced
\* block: the text in front of the cut holds an even number of fences.
C33_FenceCutOutsideBlock ==
    args.chunk_size >= 1 =>
        \A w \in locals.cuts :
            Past(RFind(Slice(args.text, w[1], w[1] + args.chunk_size), <<"^", "^", "^">>),
                 args.chunk_size) =>
                Fences(Slice(args.text, 0, w[2])) % 2 = 0

\* C37: smart_chunk_markdown returns for every text and every integer
\* chunk_size, when its loop is left to run.
C37_ChunkingReturns == <>(result # <<>>)

\* ------------------------------------------------------------------------
\* Config of config.py: the constructor loads the file .env of the project
\* into os.environ unless the process runs in a container or NO_DOTENV is
\* set.  args holds os.environ before the constructor, the variables of
\* the file (<<>> when there is no file) and whether the process is in a
\* container; result holds os.environ after it.
\* ------------------------------------------------------------------------

\* os.environ and the file give each variable one of two values, or none;
\* the value p1 can stand in both
ConfigArgs ==
    [fn : {"Config"},
     environ : UNION {[names -> {"p1", "p2"}] :
                          names \in SUBSET {"HOST", "PORT", "NO_DOTENV"}},
     dotenv : {<<>>} \cup {<<file>> : file \in
                  UNION {[names -> {"f1", "p1"}] :
                             names \in SUBSET {"HOST", "PORT"}}},
     dockerenv : BOOLEAN]

\* load_dotenv(dotenv_path, override): every variable of the file is set in
\* os.environ, one that is set already only when override is true
load_dotenv(environ, file, override) ==
    [name \in DOMAIN environ \cup DOMAIN file |->
        IF name \in DOMAIN file /\ (override \/ name \notin DOMAIN environ)
        THEN file[name]
        ELSE environ[name]]

\* Config._load_environment with _is_containerized and _load_dotenv_file
load_environment(environ, dotenv, dockerenv) ==
    IF ~dockerenv /\ "NO_DOTENV" \notin DOMAIN environ /\ dotenv # <<>>
    THEN load_dotenv(environ, dotenv[1], TRUE)
    ELSE environ

ConfigInit ==
    /\ FreshProcess
    /\ NoThreads
    /\ crawled_pages = <<>>
    /\ sources = <<>>
    /\ ipc = "idle"
    /\ ilocal = <<>>
    /\ oplog = <<>>
    /\ ingested = <<>>
    /\ args \in ConfigArgs
    /\ result = <<>>
    /\ locals = <<>>

\* "config = Config()"
ConfigLoad ==
    /\ result = <<>>
    /\ result' = <<load_environment(args.environ, args.dotenv, args.dockerenv)>>
    /\ UNCHANGED <<env, now, ticks, consecutive_errors, circuit_breaker_until,
                   last_request_time, client_cache, request_semaphore, callVars,
                   failure_streak, opened_at, threadVars, crawled_pages, sources,
                   ipc, ilocal, oplog, ingested, args, locals>>

SpecConfig == ConfigInit /\ [][ConfigLoad]_vars

\* C35: when Config has loaded the file .env, every variable that was set
\* in the process before has the value it had: the process wins over the
\* file.
C35_ProcessValueKept ==
    (result # <<>> /\ args.dotenv # <<>>) =>
        \A name \in DOMAIN args.environ : result[1][name] = args.environ[name]

\* ------------------------------------------------------------------------
\* create_embeddings_batch: the caller of create_embeddings_with_fallback
\* that ingestion and search use.  inner is how the call of
\* create_embeddings_with_fallback(texts) ends.
\* ------------------------------------------------------------------------

\* the texts of a call that is not empty: the backends answer with three
\* vectors
InputTexts == <<"text 1", "text 2", "text 3">>

\* create_embeddings_batch without its try statement
create_embeddings_batch_bare(texts, inner) ==
    IF texts = <<>> THEN Returned(<<>>) ELSE inner

\* "if not texts: return []", then the call in a try statement whose except
\* clause returns [[0.0] * embedding_dims] * len(texts)
create_embeddings_batch(texts, inner) ==
    IF texts = <<>>
    THEN Returned(<<>>)
    ELSE IF inner.kind = "raised"
         THEN Returned([i \in 1..Len(texts) |-> Zeros(env.target_dims)])
         ELSE inner

\* C22: create_embeddings_batch never raises; when the primary and the
\* fallback both fail it returns exactly len(texts) vectors, each all-zero
\* and of the EMBEDDING_DIMENSIONS length.
C22_ZeroVectorsWhenAllFail ==
    (env.kind = "embedding" /\ pc = "done") =>
        \A texts \in {<<>>, InputTexts} :
            LET r == create_embeddings_batch(texts, outcome)
            IN  /\ r.kind = "returned"
                /\ outcome.kind = "raised" =>
                       /\ Len(r.value) = Len(texts)
                       /\ \A i \in 1..Len(texts) :
                              /\ Len(r.value[i]) = env.target_dims
                              /\ \A k \in 1..env.target_dims : r.value[i][k] = 0

\* the primary and the fallback backend have both been asked and have both
\* failed, and the caller gets zero vectors
C22_Witness ==
    /\ env.kind = "embedding"
    /\ pc = "done"
    /\ outcome.kind = "raised"
    /\ RequestsTo("primary") # <<>>
    /\ RequestsTo("fallback") # <<>>
    /\ create_embeddings_batch(InputTexts, outcome).value =
           <<Zeros(env.target_dims), Zeros(env.target_dims), Zeros(env.target_dims)>>

\* ------------------------------------------------------------------------
\* Ingestion: the crawl paths of crawl4ai_mcp.py hand urls, chunk numbers,
\* contents and metadata to add_documents_to_supabase, which deletes the
\* rows of the urls, then augments, embeds and inserts batch by batch.  A
\* content is a sequence of text fragments.  A request to the store either
\* takes effect and returns, or raises and changes nothing.  A row carries
\* the number of the ingestion call that inserted it (call), which the
\* table of the program does not hold.
\* ------------------------------------------------------------------------

\* crawl_single_page: a page and the chunks smart_chunk_markdown cut it into
crawl_single_page(url, chunks) ==
    [urls |-> [i \in 1..Len(chunks) |-> url],
     chunk_numbers |-> [i \in 1..Len(chunks) |-> i],
     contents |-> chunks,
     metadatas |-> [i \in 1..Len(chunks) |->
                        [url |-> url, chunk_number |-> i, contextual_embedding |-> FALSE]]]

\* the sitemap branch of crawl_single_page: one row per url of the sitemap
process_sitemap(urls) ==
    [urls |-> urls,
     chunk_numbers |-> [i \in 1..Len(urls) |-> 0],
     contents |-> [i \in 1..Len(urls) |-> <<"Sitemap entry:", urls[i]>>],
     metadatas |-> [i \in 1..Len(urls) |->
                        [url |-> urls[i], chunk_number |-> 0, contextual_embedding |-> FALSE]]]

\* _process_crawl_results: the pages of a batch or recursive crawl, one
\* after the other; a page without content is skipped
RECURSIVE process_crawl_results(_)
process_crawl_results(results) ==
    IF results = <<>>
    THEN [urls |-> <<>>, chunk_numbers |-> <<>>, contents |-> <<>>, metadatas |-> <<>>]
    ELSE LET page == crawl_single_page(Head(results).url, Head(results).chunks)
             rest == process_crawl_results(Tail(results))
         IN  [urls |-> page.urls \o rest.urls,
              chunk_numbers |-> page.chunk_numbers \o rest.chunk_numbers,
              contents |-> page.contents \o rest.contents,
              metadatas |-> page.metadatas \o rest.metadatas]

\* what the crawl paths hand over: a page of three chunks, a sitemap of two
\* urls, and a crawl of two pages
Documents ==
    {crawl_single_page("a", << <<"a1">>, <<"a2">>, <<"a3">> >>),
     process_sitemap(<<"a", "b">>),
     process_crawl_results(<<[url |-> "a", chunks |-> << <<"a1">>, <<"a2">> >>],
                             [url |-> "b", chunks |-> <<>>],
                             [url |-> "b", chunks |-> << <<"b1">> >>]>>)}

\* what create_embeddings_with_fallback(texts) can do: return a vector per
\* text, raise, or return fewer vectors than texts
EmbeddingAnswers == {"vectors", "raised", "short"}

EmbeddingOutcome(texts, answer) ==
    IF answer = "raised"
    THEN Raised(Err503)
    ELSE Returned([k \in 1..(IF answer = "short" THEN Len(texts) - 1 ELSE Len(texts)) |->
                       [d \in 1..env.target_dims |-> 1]])

\* the requests of the log that raised
Faults == SelectSeq(oplog, LAMBDA e : ~e.ok)

Logged(op, row, ok) ==
    Append(oplog, [op |-> op, call |-> Len(ingested), batch |-> ilocal.i,
                   row |-> row, size |-> Len(ilocal.batch_data), ok |-> ok])

\* the positions of the current batch: contents[i:batch_end], counted from 1
BatchOf(l) ==
    (l.i + 1)..(IF l.i + BatchSize < Len(l.contents)
                THEN l.i + BatchSize ELSE Len(l.contents))

\* "for i in range(0, len(contents), batch_size)" with i the next value, up
\* to the call of the executor or of create_embeddings_batch
LoopHead(l, i) ==
    IF i >= Len(l.contents)
    THEN [ipc |-> "done", ilocal |-> [l EXCEPT !.i = i]]
    ELSE LET m == [l EXCEPT !.i = i, !.collected = {}, !.batch_data = <<>>,
                            !.retry = 0, !.j = 0]
         IN  IF l.use_contextual_embeddings
             THEN [ipc |-> "context", ilocal |-> [m EXCEPT !.contextual_contents = <<>>]]
             ELSE [ipc |-> "embed",
                   ilocal |-> [m EXCEPT !.contextual_contents =
                                   [k \in 1..Cardinality(BatchOf(m)) |-> m.contents[i + k]]]]

\* what the steps of add_documents_to_supabase leave alone
IngestFrame ==
    UNCHANGED <<env, now, ticks, consecutive_errors, circuit_breaker_until,
                last_request_time, client_cache, request_semaphore, callVars,
                failure_streak, opened_at, threadVars, sources, args, result, locals>>

\* the call, with USE_CONTEXTUAL_EMBEDDINGS, MAX_WORKERS_CONTEXT and
\* SUPABASE_MAX_RETRIES as the environment has them; the caller makes no
\* more than calls calls
IngestStart(doc, use_contextual_embeddings, max_context_workers, max_retries_set, calls) ==
    /\ ipc \in {"idle", "done", "raised"}
    /\ Len(ingested) < calls
    /\ ingested' = Append(ingested, doc)
    /\ ilocal' = [urls |-> doc.urls, chunk_numbers |-> doc.chunk_numbers,
                  contents |-> doc.contents, metadatas |-> doc.metadatas,
                  use_contextual_embeddings |-> use_contextual_embeddings,
                  max_context_workers |-> max_context_workers,
                  max_retries |-> max_retries_set,
                  unique_urls |-> {doc.urls[k] : k \in 1..Len(doc.urls)},
                  i |-> 0, contextual_contents |-> <<>>, collected |-> {},
                  batch_data |-> <<>>, retry |-> 0, j |-> 0]
    /\ ipc' = "delete"
    /\ UNCHANGED <<crawled_pages, oplog>>
    /\ IngestFrame

\* "client.table("crawled_pages").delete().in_("url", unique_urls).execute()"
BatchDelete(ok) ==
    /\ ipc = "delete"
    /\ ok \/ Len(Faults) < MaxFaults
    /\ oplog' = Logged("delete", 0, ok)
    /\ IF ok
       THEN /\ crawled_pages' =
                   SelectSeq(crawled_pages, LAMBDA r : r.url \notin ilocal.unique_urls)
            /\ ipc' = LoopHead(ilocal, 0).ipc
            /\ ilocal' = LoopHead(ilocal, 0).ilocal
       ELSE /\ ipc' = "delete_each"
            /\ UNCHANGED <<crawled_pages, ilocal>>
    /\ UNCHANGED ingested
    /\ IngestFrame

\* one pass of "for url in unique_urls": the delete of the rows of one url,
\* whose failure is printed and no more
UrlDelete(url, ok) ==
    /\ ipc = "delete_each"
    /\ url \in ilocal.unique_urls
    /\ ok \/ Len(Faults) < MaxFaults
    /\ oplog' = Logged("delete_url", 0, ok)
    /\ crawled_pages' =
           IF ok THEN SelectSeq(crawled_pages, LAMBDA r : r.url # url) ELSE crawled_pages
    /\ LET l == [ilocal EXCEPT !.unique_urls = @ \ {url}]
       IN  IF l.unique_urls = {}
           THEN /\ ipc' = LoopHead(l, 0).ipc
                /\ ilocal' = LoopHead(l, 0).ilocal
           ELSE /\ ipc' = ipc
                /\ ilocal' = l
    /\ UNCHANGED ingested
    /\ IngestFrame

\* one pass of "for future in as_completed(future_to_idx)": the future of
\* position idx is done, its result is appended to contextual_contents.  A
\* future runs when fewer than max_context_workers futures submitted before
\* it are still to come.
ContextResult(idx, success) ==
    /\ ipc = "context"
    /\ idx \in BatchOf(ilocal) \ ilocal.collected
    /\ Cardinality({k \in BatchOf(ilocal) \ ilocal.collected : k < idx})
           < ilocal.max_context_workers
    /\ LET text == IF success
                   THEN <<"context", "---">> \o ilocal.contents[idx]
                   ELSE ilocal.contents[idx]
           l == [ilocal EXCEPT
                     !.contextual_contents = Append(@, text),
                     !.metadatas[idx].contextual_embedding = success \/ @,
                     !.collected = @ \cup {idx}]
       IN  /\ ilocal' = l
           /\ ipc' = IF l.collected = BatchOf(l) THEN "embed" ELSE "context"
    /\ UNCHANGED <<crawled_pages, oplog, ingested>>
    /\ IngestFrame

\* the row built from position k of the batch
Record(l, k, batch_embeddings) ==
    [url |-> l.urls[l.i + k],
     chunk_number |-> l.chunk_numbers[l.i + k],
     content |-> l.contextual_contents[k],
     metadata |-> l.metadatas[l.i + k],
     embedding |-> batch_embeddings[k],
     call |-> Len(ingested)]

\* "for retry in range(max_retries)" entered: with max_retries below 1 the
\* loop has no pass and the batch loop goes on to the next batch
InsertLoop(l) ==
    IF l.max_retries >= 1
    THEN [ipc |-> "insert", ilocal |-> l]
    ELSE LoopHead(l, l.i + BatchSize)

\* "batch_embeddings = create_embeddings_batch(contextual_contents)" and the
\* loop that builds batch_data; batch_embeddings[j] raises IndexError when
\* there are fewer vectors than contents
Embed(answer) ==
    /\ ipc = "embed"
    /\ LET inner == EmbeddingOutcome(ilocal.contextual_contents, answer)
           batch_embeddings ==
               create_embeddings_batch(ilocal.contextual_contents, inner).value
       IN  IF Len(batch_embeddings) < Len(ilocal.contextual_contents)
           THEN /\ ipc' = "raised"
                /\ UNCHANGED ilocal
           ELSE LET l == [ilocal EXCEPT
                                  !.batch_data =
                                      [k \in 1..Len(ilocal.contextual_contents) |->
                                           Record(ilocal, k, batch_embeddings)],
                                  !.retry = 0]
                IN  /\ ipc' = InsertLoop(l).ipc
                    /\ ilocal' = InsertLoop(l).ilocal
    /\ UNCHANGED <<crawled_pages, oplog, ingested>>
    /\ IngestFrame

\* "if retry < max_retries - 2": the rows are inserted one by one an
\* attempt early
LastRetry_early(retry) == ~(retry < ilocal.max_retries - 2)

\* "if retry < max_retries - 1" of the insert loop is false: the attempt
\* that failed was the last one
LastRetry(retry) == ~(retry < ilocal.max_retries - 1)

\* one pass of "for retry in range(max_retries)": the insert of the batch
BatchInsert(ok) ==
    /\ ipc = "insert"
    /\ ok \/ Len(Faults) < MaxFaults
    /\ oplog' = Logged("insert", 0, ok)
    /\ IF ok
       THEN /\ crawled_pages' = crawled_pages \o ilocal.batch_data
            /\ ipc' = LoopHead(ilocal, ilocal.i + BatchSize).ipc
            /\ ilocal' = LoopHead(ilocal, ilocal.i + BatchSize).ilocal
       ELSE /\ UNCHANGED crawled_pages
            /\ IF LastRetry(ilocal.retry)
               THEN /\ ipc' = "insert_each"
                    /\ ilocal' = [ilocal EXCEPT !.j = 1]
               ELSE /\ ipc' = "insert"
                    /\ ilocal' = [ilocal EXCEPT !.retry = @ + 1]
    /\ UNCHANGED ingested
    /\ IngestFrame

\* one pass of "for record in batch_data": the insert of one row
RowInsert(ok) ==
    /\ ipc = "insert_each"
    /\ ok \/ Len(Faults) < MaxFaults
    /\ oplog' = Logged("insert_row", ilocal.j, ok)
    /\ crawled_pages' =
           IF ok THEN Append(crawled_pages, ilocal.batch_data[ilocal.j]) ELSE crawled_pages
    /\ IF ilocal.j < Len(ilocal.batch_data)
       THEN /\ ipc' = ipc
            /\ ilocal' = [ilocal EXCEPT !.j = @ + 1]
       ELSE /\ ipc' = LoopHead(ilocal, ilocal.i + BatchSize).ipc
            /\ ilocal' = LoopHead(ilocal, ilocal.i + BatchSize).ilocal
    /\ UNCHANGED ingested
    /\ IngestFrame

\* a fresh process and an empty store
IngestInit ==
    /\ FreshProcess
    /\ NoThreads
    /\ NoPipeline

\* ingestion without contextual embeddings, the embedding backend at work,
\* the store failing now and then
IngestNext ==
    \/ \E doc \in Documents : IngestStart(doc, FALSE, 1, SUPABASE_MAX_RETRIES, MaxIngests)
    \/ \E ok \in BOOLEAN : BatchDelete(ok)
    \/ \E url \in {"a", "b"}, ok \in BOOLEAN : UrlDelete(url, ok)
    \/ Embed("vectors")
    \/ \E ok \in BOOLEAN : BatchInsert(ok)
    \/ \E ok \in BOOLEAN : RowInsert(ok)

SpecIngest == IngestInit /\ [][IngestNext]_vars

\* one ingestion with contextual embeddings, the store at work, the AI
\* backends answering as they like
ContextNext ==
    \/ \E doc \in Documents, w \in 1..MaxWorkers : IngestStart(doc, TRUE, w, SUPABASE_MAX_RETRIES, 1)
    \/ BatchDelete(TRUE)
    \/ \E idx \in UNION {DOMAIN doc.contents : doc \in Documents}, success \in BOOLEAN :
           ContextResult(idx, success)
    \/ \E answer \in EmbeddingAnswers : Embed(answer)
    \/ BatchInsert(TRUE)

SpecContext == IngestInit /\ [][ContextNext]_vars

\* one ingestion without contextual embeddings, with SUPABASE_MAX_RETRIES
\* set to any number from 0 to MaxRetries, the inserts failing now and then
MaxRetries == 2

RetryNext ==
    \/ \E doc \in Documents, max_retries_set \in 0..MaxRetries :
           IngestStart(doc, FALSE, 1, max_retries_set, 1)
    \/ BatchDelete(TRUE)
    \/ Embed("vectors")
    \/ \E ok \in BOOLEAN : BatchInsert(ok)
    \/ \E ok \in BOOLEAN : RowInsert(ok)

SpecRetries == IngestInit /\ [][RetryNext]_vars

\* ------------------------------------------------------------------------
\* crawl_recursive_internal_links of crawl4ai_mcp.py.  args holds the start
\* urls, max_depth and the site: for every page, the urls its content links
\* to, all of the domain of the start url.  A url with "/" at its end names
\* the page of the url without it.  locals holds visited, to_visit, the
\* number of the start url at work and, as history, the urls given to
\* crawl_batch, in order.  Every page is crawled with success.
\* ------------------------------------------------------------------------

\* the deepest max_depth of a call
MaxDepth == 2

\* normalize_url: scheme, host and path without "/" at the end
normalize_url(url) == IF url = "a/" THEN "a" ELSE url

CrawlArgs ==
    [fn : {"crawl_recursive_internal_links"},
     start_urls : {<<"s">>, <<"s", "a/">>, <<"a", "a/">>},
     max_depth : 0..MaxDepth,
     links : [{"s", "a", "b"} -> SUBSET {"a", "a/", "b"}]]

\* "for url, current_depth in to_visit": the urls not visited before and no
\* deeper than max_depth go into current_batch, those above max_depth into
\* next_to_visit as well
RECURSIVE PrepareBatch(_, _, _)
PrepareBatch(to_visit, max_depth, acc) ==
    IF to_visit = <<>>
    THEN acc
    ELSE LET url == Head(to_visit)[1]
             current_depth == Head(to_visit)[2]
             take == current_depth <= max_depth /\ normalize_url(url) \notin acc.visited
         IN  PrepareBatch(Tail(to_visit), max_depth,
                 IF take
                 THEN [visited |-> acc.visited \cup {normalize_url(url)},
                       current_batch |-> Append(acc.current_batch, url),
                       next_to_visit |-> IF current_depth < max_depth
                                         THEN Append(acc.next_to_visit, <<url, current_depth>>)
                                         ELSE acc.next_to_visit]
                 ELSE acc)

CrawlInit ==
    /\ FreshProcess
    /\ NoThreads
    /\ crawled_pages = <<>>
    /\ sources = <<>>
    /\ ipc = "idle"
    /\ ilocal = <<>>
    /\ oplog = <<>>
    /\ ingested = <<>>
    /\ args \in CrawlArgs
    /\ result = <<>>
    /\ locals = [visited |-> {}, to_visit |-> <<>>, start |-> 0, crawled |-> <<>>]

CrawlFrame ==
    UNCHANGED <<env, now, ticks, consecutive_errors, circuit_breaker_until,
                last_request_time, client_cache, request_semaphore, callVars,
                failure_streak, opened_at, threadVars, crawled_pages, sources,
                ipc, ilocal, oplog, ingested, args>>

\* "for start_url in start_urls: to_visit = [(start_url, 0)]", or the
\* return when the start urls are used up
CrawlStart ==
    /\ result = <<>>
    /\ locals.to_visit = <<>>
    /\ IF locals.start < Len(args.start_urls)
       THEN /\ locals' = [locals EXCEPT
                              !.start = @ + 1,
                              !.to_visit = << <<args.start_urls[locals.start + 1], 0>> >>]
            /\ UNCHANGED result
       ELSE /\ result' = <<locals.crawled>>
            /\ UNCHANGED locals
    /\ CrawlFrame

\* one pass of "while to_visit": the batch is prepared and crawled; the
\* links found are appended to to_visit, and the last statement of the pass,
\* "to_visit = []", empties it
CrawlPass ==
    /\ result = <<>>
    /\ locals.to_visit # <<>>
    /\ LET batch == PrepareBatch(locals.to_visit, args.max_depth,
                                 [visited |-> locals.visited, current_batch |-> <<>>,
                                  next_to_visit |-> <<>>])
       IN  locals' = [locals EXCEPT !.visited = batch.visited,
                                    !.crawled = @ \o batch.current_batch,
                                    !.to_visit = <<>>]
    /\ UNCHANGED result
    /\ CrawlFrame

SpecCrawl == CrawlInit /\ [][CrawlStart \/ CrawlPass]_vars

\* the pages no more than depth links away from the page of url
RECURSIVE Within(_, _)
Within(url, depth) ==
    IF depth = 0
    THEN {normalize_url(url)}
    ELSE LET near == Within(url, depth - 1)
         IN  near \cup {normalize_url(link) : link \in UNION {args.links[page] : page \in near}}

\* C40: when crawl_recursive_internal_links has returned, the pages it has
\* crawled are the pages no more than max_depth links away from a start
\* url, and no page was crawled twice.
C40_CrawlsAllWithinDepth ==
    (args.fn = "crawl_recursive_internal_links" /\ result # <<>>) =>
        /\ {normalize_url(result[1][k]) : k \in 1..Len(result[1])} =
               UNION {Within(args.start_urls[n], args.max_depth) :
                          n \in 1..Len(args.start_urls)}
        /\ \A j, k \in 1..Len(result[1]) :
               normalize_url(result[1][j]) = normalize_url(result[1][k]) => j = k

\* the rows of the table that hold url
RowsOf(url) == SelectSeq(crawled_pages, LAMBDA r : r.url = url)

\* every row handed to the store so far has been stored: no insert of a
\* single row has failed
AllStored == \A k \in 1..Len(oplog) : oplog[k].op = "insert_row" => oplog[k].ok

\* C23: when the same urls and chunks have been ingested twice, and every
\* row has been stored both times, the table holds for each of the urls
\* exactly as many rows as the call was given chunks of it, not twice as
\* many.
C23_SameRowsAfterSecondIngestion ==
    (ipc = "done" /\ Len(ingested) = 2 /\ ingested[1] = ingested[2] /\ AllStored) =>
        \A u \in ilocal.unique_urls \cup {ilocal.urls[k] : k \in 1..Len(ilocal.urls)} :
            Len(RowsOf(u)) = Cardinality({k \in 1..Len(ilocal.urls) : ilocal.urls[k] = u})

\* C24: no url ever holds rows of an earlier ingestion call together with
\* rows of a later one: rows of a url are inserted only when the rows it
\* had are gone.
C24_NoOldRowsBesideNew ==
    \A p, q \in 1..Len(crawled_pages) :
        crawled_pages[p].url = crawled_pages[q].url =>
            crawled_pages[p].call = crawled_pages[q].call

\* the requests of kind op that call c made of the store for the batch
\* that begins at position b
Requests(c, b, op) ==
    SelectSeq(oplog, LAMBDA e : e.call = c /\ e.batch = b /\ e.op = op)

\* the batch of call c that begins at position b is over
BatchOver(c, b) ==
    \/ c < Len(ingested)
    \/ ipc = "done"
    \/ ilocal.i > b

\* C25: the insert of a whole batch is tried at most SUPABASE_MAX_RETRIES
\* times and not again after it has succeeded; rows are inserted one by one
\* only after SUPABASE_MAX_RETRIES failed attempts, and then every row of
\* the batch is tried once, in order, whether the rows before it failed or
\* not.
C25_BatchRetriedThenRowByRow ==
    \A c \in 1..Len(ingested) :
        \A b \in {oplog[k].batch : k \in 1..Len(oplog)} :
            LET whole == Requests(c, b, "insert")
                single == Requests(c, b, "insert_row")
            IN  /\ Len(whole) <= SUPABASE_MAX_RETRIES
                /\ \A k \in 1..(Len(whole) - 1) : ~whole[k].ok
                /\ single # <<>> =>
                       /\ Len(whole) = SUPABASE_MAX_RETRIES
                       /\ \A k \in 1..Len(whole) : ~whole[k].ok
                       /\ \A k \in 1..Len(single) : single[k].row = k
                       /\ Len(single) <= single[1].size
                       /\ BatchOver(c, b) => Len(single) = single[1].size
                /\ \A p, q \in 1..Len(oplog) :
                       (/\ oplog[p].call = c /\ oplog[p].batch = b
                        /\ oplog[q].call = c /\ oplog[q].batch = b
                        /\ oplog[p].op = "insert" /\ oplog[q].op = "insert_row") => p < q

\* a batch of two rows whose insert failed SUPABASE_MAX_RETRIES times; the
\* first row then failed on its own, the second was tried all the same and
\* stored, and the loop went on to the next batch
C25_Witness ==
    /\ ipc = "insert"
    /\ ilocal.i = BatchSize
    /\ Len(Requests(1, 0, "insert")) = SUPABASE_MAX_RETRIES
    /\ LET single == Requests(1, 0, "insert_row")
       IN  /\ Len(single) = 2
           /\ ~single[1].ok
           /\ single[2].ok
    /\ Len(crawled_pages) = 1

\* C26: the call runs through all its batches and returns: it never ends
\* by raising, whatever the AI backends return.
C26_EveryBatchReached ==
    ipc \in {"done", "raised"} =>
        /\ ipc = "done"
        /\ ilocal.i >= Len(ilocal.contents)

\* C27: every stored row holds, beside the url and the number of a chunk,
\* the content made from that chunk: the chunk itself or the chunk with its
\* context in front.
C27_RowHoldsItsOwnChunk ==
    \A p \in 1..Len(crawled_pages) :
        LET r == crawled_pages[p]
            doc == ingested[r.call]
        IN  \E k \in 1..Len(doc.contents) :
                /\ doc.urls[k] = r.url
                /\ doc.chunk_numbers[k] = r.chunk_number
                /\ doc.metadatas[k].url = r.metadata.url
                /\ doc.metadatas[k].chunk_number = r.metadata.chunk_number
                /\ r.content \in {doc.contents[k], <<"context", "---">> \o doc.contents[k]}

\* C28: when a call has stored all its rows, the chunk numbers it stored
\* for each url are 1, 2, ..., n in the order of the chunks.
C28_ChunkNumbersFromOne ==
    (ipc = "done" /\ AllStored) =>
        \A u \in {ilocal.urls[k] : k \in 1..Len(ilocal.urls)} :
            LET stored == SelectSeq(crawled_pages,
                                    LAMBDA r : r.url = u /\ r.call = Len(ingested))
            IN  \A k \in 1..Len(stored) : stored[k].chunk_number = k

\* ------------------------------------------------------------------------
\* update_source_info: the row of a source is updated, or inserted when the
\* update changed no row.  The update and the insert are two requests of the
\* store, and the tools that call the function run for several requests of
\* the server at once.  The table is as the function uses it: a list of
\* rows the store adds to and changes.
\* ------------------------------------------------------------------------

\* update_source_info is called no more than MaxSourceCalls times
MaxSourceCalls == 3

\* the hosts and the summaries with word counts of the calls
SourceIds == {"a", "b"}
SourceInfos == {[summary |-> "s1", word_count |-> 1], [summary |-> "s2", word_count |-> 2]}

\* the rows of the table that an update of source_id matches
Matching(source_id) == {p \in 1..Len(sources) : sources[p].source_id = source_id}

\* what the steps of update_source_info leave alone
SourceFrame ==
    UNCHANGED <<env, now, ticks, consecutive_errors, circuit_breaker_until,
                last_request_time, client_cache, request_semaphore, callVars,
                failure_streak, opened_at, client_cache_lock, semaphores,
                crawled_pages, ipc, ilocal, oplog, ingested, args, result, locals>>

\* "result = client.table('sources').update({...}).eq('source_id', source_id)
\* .execute()" and "if not result.data:"; a request that raises is printed
\* and the function returns
SourceUpdate(t, source_id, info, ok) ==
    /\ tpc[t] = "idle"
    /\ Len(history) < MaxSourceCalls
    /\ history' = Append(history, [thread |-> t, source_id |-> source_id, ok |-> ok])
    /\ IF ok
       THEN /\ sources' = [p \in 1..Len(sources) |->
                              IF p \in Matching(source_id)
                              THEN [sources[p] EXCEPT !.summary = info.summary,
                                                      !.total_word_count = info.word_count]
                              ELSE sources[p]]
            /\ tlocal' = [tlocal EXCEPT ![t] =
                             [source_id |-> source_id, summary |-> info.summary,
                              word_count |-> info.word_count,
                              data |-> Cardinality(Matching(source_id))]]
            /\ tpc' = [tpc EXCEPT ![t] =
                          IF Matching(source_id) = {} THEN "insert" ELSE "idle"]
       ELSE UNCHANGED <<sources, tlocal, tpc>>
    /\ SourceFrame

\* "client.table('sources').insert({...}).execute()"; a request that raises
\* is printed and the function returns
SourceInsert(t, ok) ==
    /\ tpc[t] = "insert"
    /\ sources' =
           IF ok
           THEN Append(sources, [source_id |-> tlocal[t].source_id,
                                 summary |-> tlocal[t].summary,
                                 total_word_count |-> tlocal[t].word_count])
           ELSE sources
    /\ tpc' = [tpc EXCEPT ![t] = "idle"]
    /\ UNCHANGED <<tlocal, history>>
    /\ SourceFrame

SourceNext ==
    \/ \E t \in Threads, source_id \in SourceIds, info \in SourceInfos, ok \in BOOLEAN :
           SourceUpdate(t, source_id, info, ok)
    \/ \E t \in Threads, ok \in BOOLEAN : SourceInsert(t, ok)

SpecSources == IngestInit /\ [][SourceNext]_vars

\* C29: the table sources never holds two rows with one source_id,
\* whatever calls of update_source_info have run, one after the other or at
\* the same time.
C29_OneRowPerSource ==
    \A p, q \in 1..Len(sources) :
        sources[p].source_id = sources[q].source_id => p = q

\* C39: when a call of add_documents_to_supabase is over, every row it was
\* given has been handed to the store at least once, in the insert of its
\* batch or on its own, whatever SUPABASE_MAX_RETRIES is set to.
C39_EveryRowAttempted ==
    ipc = "done" =>
        \A k \in 1..Len(ilocal.contents) :
            \E n \in 1..Len(oplog) :
                LET e == oplog[n]
                IN  /\ e.call = Len(ingested)
                    /\ e.batch < k
                    /\ k <= e.batch + e.size
                    /\ \/ e.op = "insert"
                       \/ e.op = "insert_row" /\ e.row = k - e.batch

====
